---- MODULE Spec2Model ----
(***************************************************************************)
(* remote-radar: the scheduler cycle (internal/scheduler), the crawl of    *)
(* the Eleduck fetcher (internal/fetcher) and the raw / final job stores   *)
(* (internal/storage), as one state machine.                               *)
(*                                                                         *)
(* Processes: process 0 is the goroutine started by Scheduler.Start (the   *)
(* periodic driver); processes 1..MaxManual are callers of the exported    *)
(* Scheduler.RunOnce (the HTTP refresh handler).                           *)
(***************************************************************************)
EXTENDS Integers, Sequences, FiniteSets, TLC

\* ---------------------------------------------------------------- bounds
MaxManual == 1      \* concurrent callers of RunOnce
SchedIds  == 1      \* distinct post ids the site serves, scheduler with driver
NumIds    == 3      \* distinct post ids the site serves, one caller of RunOnce
TickCap   == 2      \* capacity of the ticker channel
BatchSize == 2      \* Scheduler.batchSize (processor_batch_size)
StoreKeys == 2      \* distinct keys handed to the stores when they are called directly
MaxBatch  == 2      \* longest batch handed to the stores when they are called directly
MaxPages  == 2      \* FetcherConfig.MaxPages, a crawl followed page by page
NumCats   == 2      \* configured category paths, a crawl followed page by page
MaxSubs   == 2      \* subscriptions the store holds when Notify is called directly
MaxTicks  == 10     \* steps of the clock the cron driver is followed over
ClockStep == 30     \* seconds in a step of the clock

Driver  == 0
Manuals == 1..MaxManual
Procs   == {Driver} \cup Manuals
EmptyId == 0        \* the empty string as an external id

\* ------------------------------------------------------------- sequences
RECURSIVE SeqToSet(_)
SeqToSet(s) == IF s = <<>> THEN {} ELSE {Head(s)} \cup SeqToSet(Tail(s))

RECURSIVE SelectIdx(_, _, _)
\* the indices i >= from of s with s[i].status = "pending", ascending
SelectIdx(s, from, limit) ==
    IF from > Len(s) \/ limit = 0 THEN <<>>
    ELSE IF s[from].status = "pending"
         THEN <<from>> \o SelectIdx(s, from + 1, limit - 1)
         ELSE SelectIdx(s, from + 1, limit)

\* ------------------------------------------------------------ the crawl
\* Times are whole days.  The cutoff of a crawl is now minus the configured
\* maximum age.
Now        == 3
MaxAgeDays == 1
Cutoff     == Now - MaxAgeDays

\* What the published timestamp of a post resolves to: <<>> when the post has
\* no usable timestamp (none of the two fields is set, the text does not
\* parse, or it parses to the zero time), <<t>> when it resolves to time t.
NoTime == <<>>
At(t)  == <<t>>
\* publishedAt.Before(cutoff): strictly earlier
Before(ts, t) == ts[1] < t

\* A post of a listing page: its id, its published timestamp and whether it
\* carries a remote tag.
Post(id, ts, remote) == [id |-> id, ts |-> ts, remote |-> remote]
\* the candidate Fetch builds from a post it accepts
FetchedJob(p) == [ID |-> p.id, PublishedAt |-> p.ts[1]]
\* A page: fails (transport error, non-200 status, unparsable document) or
\* yields its posts.
Page(fails, posts) == [fails |-> fails, posts |-> posts]

\* PostVerdict leaving the category at a post without usable timestamp
PostVerdictNoTimeStops(p, seen) ==
    IF p.ts = NoTime THEN "stop"
    ELSE IF Before(p.ts, Cutoff) THEN "stop"
    ELSE IF ~p.remote THEN "skip"
    ELSE IF p.id # EmptyId /\ p.id \in seen THEN "skip"
    ELSE "take"

\* what the loop over the posts does with one post: it skips it (continue),
\* leaves the category (break) or takes it as a candidate
PostVerdict(p, seen) ==
    IF p.ts = NoTime THEN "skip"
    ELSE IF Before(p.ts, Cutoff) THEN "stop"
    ELSE IF ~p.remote THEN "skip"
    ELSE IF p.id # EmptyId /\ p.id \in seen THEN "skip"
    ELSE "take"

RECURSIVE ScanPosts(_, _, _)
\* the loop over the posts of one page: [jobs, seen, stop]
ScanPosts(posts, jobs, seen) ==
    IF posts = <<>> THEN [jobs |-> jobs, seen |-> seen, stop |-> FALSE]
    ELSE LET p == Head(posts)
             v == PostVerdict(p, seen) IN
         IF v = "skip" THEN ScanPosts(Tail(posts), jobs, seen)
         ELSE IF v = "stop" THEN [jobs |-> jobs, seen |-> seen, stop |-> TRUE]
         ELSE ScanPosts(Tail(posts), Append(jobs, FetchedJob(p)),
                        IF p.id # EmptyId THEN seen \cup {p.id} ELSE seen)

\* FetchAbort handing back what was collected before the failing page
FetchAbortPartial(jobs) == [jobs |-> jobs, err |-> TRUE]

\* what Fetch returns on a page that fails: nil and the wrapped error
FetchAbort(jobs) == [jobs |-> <<>>, err |-> TRUE]

RECURSIVE ScanPages(_, _, _)
\* the loop over the pages of one category: [jobs, seen, err]
ScanPages(pages, jobs, seen) ==
    IF pages = <<>> THEN [jobs |-> jobs, seen |-> seen, err |-> FALSE]
    ELSE IF Head(pages).fails
         THEN [jobs |-> FetchAbort(jobs).jobs, seen |-> seen, err |-> TRUE]
    ELSE LET r == ScanPosts(Head(pages).posts, jobs, seen) IN
         IF r.stop THEN [jobs |-> r.jobs, seen |-> r.seen, err |-> FALSE]
         ELSE ScanPages(Tail(pages), r.jobs, r.seen)

RECURSIVE ScanCategories(_, _, _)
ScanCategories(cats, jobs, seen) ==
    IF cats = <<>> THEN [jobs |-> jobs, err |-> FALSE]
    ELSE LET r == ScanPages(Head(cats), jobs, seen) IN
         IF r.err THEN [jobs |-> r.jobs, err |-> TRUE]
         ELSE ScanCategories(Tail(cats), r.jobs, r.seen)

\* EleduckFetcher.Fetch over a site (categories in configured order, each a
\* sequence of MaxPages pages): [jobs, err]
Fetch(site) == ScanCategories(site, <<>>, {})

\* a site whose every request fails (the request context is already done)
RECURSIVE AllFail(_)
AllFail(cats) ==
    IF cats = <<>> THEN <<>>
    ELSE <<[k \in 1..Len(Head(cats)) |-> Page(TRUE, <<>>)]>> \o AllFail(Tail(cats))

Fresh(ids) == [k \in 1..Len(ids) |-> Post(ids[k], At(Now), TRUE)]

\* The sites a cycle can meet when the listing serves the post ids I: an
\* empty page, one or two fresh remote posts (the same post twice included),
\* a second page or a second category that fails behind a fresh post, and a
\* page that reaches the cutoff in front of a failing page.
CycleSites(I) ==
    {<< <<Page(FALSE, <<>>)>> >>}
    \cup {<< <<Page(FALSE, Fresh(<<i>>))>> >> : i \in I}
    \cup {<< <<Page(FALSE, Fresh(<<i, j>>))>> >> : i \in I, j \in I}
    \cup {<< <<Page(FALSE, Fresh(<<i>>)), Page(TRUE, <<>>)>> >> : i \in I}
    \cup {<< <<Page(FALSE, Fresh(<<i>>))>>, <<Page(TRUE, <<>>)>> >> : i \in I}
    \cup {<< <<Page(FALSE, <<Post(i, At(Now), TRUE), Post(i, At(Cutoff - 1), TRUE)>>),
              Page(TRUE, <<>>)>> >> : i \in I}

\* ------------------------------------------------------------ the stores
\* A raw job handed to UpsertRawJobs: its external id (every candidate has
\* the source "eleduck", so the external id is the key), its text (one of
\* the volatile columns) and its status ("" when the caller left it unset).
RawEntry(ext, title, status) == [ext |-> ext, title |-> title, status |-> status]

\* the text the listing serves for a post: posts with an odd id name the
\* keyword of the cycles, the others do not
TitleOf(ext) == IF ext % 2 = 1 THEN <<"G", "o">> ELSE <<"x">>

\* the raw job runOnce builds from a fetched candidate: Status is not set
Candidate(ext) == RawEntry(ext, TitleOf(ext), "")

\* model.RawJob as the raw store keeps it; its ID is its index in rawJobs
\* (auto-increment primary key, rows are never deleted).
RawJob(e) == [ext |-> e.ext, title |-> e.title,
              status |-> IF e.status = "" THEN "pending" ELSE e.status,
              reason |-> "", llm |-> <<>>]

\* the keys (source, external_id) of the rows: every raw job runOnce builds
\* has the source "eleduck", so the external id alone tells the keys apart
RawKeys(store) == {store[i].ext : i \in 1..Len(store)}

RECURSIVE NewIdx(_, _, _)
\* the positions i >= from of keys whose key is not in existing, a repeated
\* key at its first position only
NewIdx(keys, from, existing) ==
    IF from > Len(keys) THEN <<>>
    ELSE IF keys[from] \in existing THEN NewIdx(keys, from + 1, existing)
    ELSE <<from>> \o NewIdx(keys, from + 1, existing \cup {keys[from]})

\* WriteRawVolatile replacing the whole row
WriteRawWhole(row, e) == RawJob(e)

\* ON CONFLICT (source, external_id) DO UPDATE of the volatile columns alone
WriteRawVolatile(row, e) == [row EXCEPT !.title = e.title]

RECURSIVE WriteRaws(_, _)
\* Create(&jobs) with the conflict clause, row by row
WriteRaws(store, batch) ==
    IF batch = <<>> THEN store
    ELSE LET e == Head(batch) IN
         IF e.ext \in RawKeys(store)
         THEN WriteRaws([i \in 1..Len(store) |->
                            IF store[i].ext = e.ext THEN WriteRawVolatile(store[i], e)
                            ELSE store[i]], Tail(batch))
         ELSE WriteRaws(Append(store, RawJob(e)), Tail(batch))

\* UpsertRawJobs counting every entry of the batch whose key was not stored
\* before the call
UpsertRawJobsCountsRepeats(store, batch) ==
    LET new == SelectSeq([k \in 1..Len(batch) |-> k],
                         LAMBDA k : batch[k].ext \notin RawKeys(store)) IN
    [store   |-> WriteRaws(store, batch),
     Created |-> Len(new),
     NewJobs |-> [k \in 1..Len(new) |-> RawJob(batch[new[k]])]]

\* Store.UpsertRawJobs: [store, Created, NewJobs].  Conflicting rows keep
\* status, reason and llm_response; new rows are inserted as pending.
UpsertRawJobs(store, batch) ==
    LET new == NewIdx([k \in 1..Len(batch) |-> batch[k].ext], 1, RawKeys(store)) IN
    [store   |-> WriteRaws(store, batch),
     Created |-> Len(new),
     NewJobs |-> [k \in 1..Len(new) |-> RawJob(batch[new[k]])]]

\* ListRawJobs with the newest raw jobs first
ListRawJobsNewestFirst(store, limit) ==
    LET all == SelectIdx(store, 1, Len(store)) IN
    [k \in 1..(IF Len(all) < limit THEN Len(all) ELSE limit) |-> all[Len(all) + 1 - k]]

\* ListRawJobs without the filter on the status
ListRawJobsAnyStatus(store, limit) ==
    [k \in 1..(IF Len(store) < limit THEN Len(store) ELSE limit) |-> k]

\* ListRawJobs without the limit
ListRawJobsUnbounded(store, limit) == SelectIdx(store, 1, Len(store))

\* Store.ListRawJobs(status = pending, limit): the IDs, created_at ascending
ListRawJobs(store, limit) == SelectIdx(store, 1, IF limit <= 0 THEN 50 ELSE limit)

\* Store.UpdateRawJobStatus: an unset status means processed, llm_response
\* is written only when Details # nil
UpdateRawJobStatus(store, id, update) ==
    [store EXCEPT ![id] = [@ EXCEPT !.status = IF update.Status = "" THEN "processed"
                                               ELSE update.Status,
                                    !.reason = update.Reason,
                                    !.llm = IF update.Details # <<>>
                                            THEN update.Details ELSE @]]

\* model.Job as the final store keeps it: the id (primary key), a
\* descriptive column and a classification column
Job(id, title, tags) == [ID |-> id, Title |-> title, NormalizedTags |-> tags]

JobKeys(store) == {j.ID : j \in store}

RECURSIVE WriteJobs(_, _)
\* Create(&jobs) with ON CONFLICT (id) DO UPDATE of every other column
WriteJobs(store, batch) ==
    IF batch = <<>> THEN store
    ELSE WriteJobs({j \in store : j.ID # Head(batch).ID} \cup {Head(batch)},
                   Tail(batch))

\* UpsertJobs that reports the new jobs and writes nothing
UpsertJobsNoWrite(store, batch) ==
    LET new == NewIdx([k \in 1..Len(batch) |-> batch[k].ID], 1, JobKeys(store)) IN
    [store   |-> store,
     Created |-> Len(new),
     NewJobs |-> [k \in 1..Len(new) |-> batch[new[k]]]]

\* UpsertJobs leaving a row whose id is already stored as it is
UpsertJobsKeepOld(store, batch) ==
    LET new == NewIdx([k \in 1..Len(batch) |-> batch[k].ID], 1, JobKeys(store)) IN
    [store   |-> store \cup {batch[new[k]] : k \in 1..Len(new)},
     Created |-> Len(new),
     NewJobs |-> [k \in 1..Len(new) |-> batch[new[k]]]]

\* Store.UpsertJobs: [store, Created, NewJobs]; the final store is keyed by
\* job id.
UpsertJobs(store, batch) ==
    LET new == NewIdx([k \in 1..Len(batch) |-> batch[k].ID], 1, JobKeys(store)) IN
    [store   |-> WriteJobs(store, batch),
     Created |-> Len(new),
     NewJobs |-> [k \in 1..Len(new) |-> batch[new[k]]]]

\* ------------------------------------------------------------- strings
\* A string is the sequence of its characters; the characters that occur
\* are letters in both cases, the space and the newline.
IsSpace(c) == c \in {" ", "\n"}

Upper == <<"A", "B", "C", "D", "E", "F", "G", "H", "I", "J", "K", "L", "M",
           "N", "O", "P", "Q", "R", "S", "T", "U", "V", "W", "X", "Y", "Z">>
Lower == <<"a", "b", "c", "d", "e", "f", "g", "h", "i", "j", "k", "l", "m",
           "n", "o", "p", "q", "r", "s", "t", "u", "v", "w", "x", "y", "z">>
LowerCh(c) == IF \E k \in 1..26 : Upper[k] = c
              THEN Lower[CHOOSE k \in 1..26 : Upper[k] = c] ELSE c

\* strings.ToLower
ToLower(s) == [i \in 1..Len(s) |-> LowerCh(s[i])]

RECURSIVE TrimLeft(_)
TrimLeft(s) == IF s # <<>> /\ IsSpace(Head(s)) THEN TrimLeft(Tail(s)) ELSE s

RECURSIVE TrimRight(_)
TrimRight(s) ==
    IF s # <<>> /\ IsSpace(s[Len(s)]) THEN TrimRight(SubSeq(s, 1, Len(s) - 1)) ELSE s

\* strings.TrimSpace
TrimSpace(s) == TrimRight(TrimLeft(s))

HasPrefix(s, sub) == Len(sub) <= Len(s) /\ SubSeq(s, 1, Len(sub)) = sub

RECURSIVE Contains(_, _)
\* strings.Contains
Contains(s, sub) == HasPrefix(s, sub) \/ (s # <<>> /\ Contains(Tail(s), sub))

\* ----------------------------------------------------------- the processor
\* processor.Config: the keyword list and the candidate tag list
Config(keywords, tags) == [Keywords |-> keywords, TagCandidates |-> tags]

\* raw.Title + "\n" + raw.Summary + "\n" + raw.Content, trimmed (title is
\* the one text column of a raw job here, the other two are empty)
Text(raw) == TrimSpace(raw.title \o <<"\n">> \o <<"\n">>)

RECURSIVE AnyKeyword(_, _)
\* the loop of containsKeyword over the keywords
AnyKeyword(kws, lower) ==
    IF kws = <<>> THEN FALSE
    ELSE LET kw == TrimSpace(Head(kws)) IN
         IF kw = <<>> THEN AnyKeyword(Tail(kws), lower)
         ELSE IF Contains(lower, ToLower(kw)) THEN TRUE
         ELSE AnyKeyword(Tail(kws), lower)

\* ContainsKeyword that lets a blank keyword match
ContainsKeywordBlankMatches(cfg, text) ==
    IF Len(cfg.Keywords) = 0 THEN TRUE
    ELSE \E i \in 1..Len(cfg.Keywords) :
           Contains(ToLower(text), ToLower(TrimSpace(cfg.Keywords[i])))

\* Processor.containsKeyword
ContainsKeyword(cfg, text) ==
    IF Len(cfg.Keywords) = 0 THEN TRUE
    ELSE AnyKeyword(cfg.Keywords, ToLower(text))

\* Processor.buildPrompt: the template filled with the text and the
\* candidate tags
BuildPrompt(cfg, text) == [text |-> text, tags |-> cfg.TagCandidates]

\* the key a tag is looked up under
TagKey(t) == ToLower(TrimSpace(t))

\* processor.New: tagLookup, lower-cased trimmed candidate -> trimmed
\* candidate, a later candidate replacing an earlier one with the same key
TagLookup(cands) ==
    LET used == {i \in 1..Len(cands) : TrimSpace(cands[i]) # <<>>}
        last(k) == CHOOSE i \in used :
                     /\ TagKey(cands[i]) = k
                     /\ \A j \in used : TagKey(cands[j]) = k => j <= i
    IN [k \in {TagKey(cands[i]) : i \in used} |-> TrimSpace(cands[last(k)])]

\* NormalizeTags keeping every tag of the answer
NormalizeTagsKeepAll(lookup, tags) == {TrimSpace(tags[i]) : i \in 1..Len(tags)}

\* Processor.buildJob, the loop over payload.Tags
NormalizeTags(lookup, tags) ==
    {lookup[TagKey(tags[i])] : i \in {j \in 1..Len(tags) : TagKey(tags[j]) \in DOMAIN lookup}}

\* Processor.buildJob: the job id is the external id, or source-ID if empty
\* (the synthesized id "eleduck-<ID>" is written as the negative number -ID)
JobID(ext, id) == IF ext = EmptyId THEN 0 - id ELSE ext

\* Processor.buildJob
BuildJob(cfg, raw, id, payload) ==
    Job(JobID(raw.ext, id), TrimSpace(raw.title),
        NormalizeTags(TagLookup(cfg.TagCandidates), payload.Tags))

\* The text a completion answers with: valid tells whether it parses as the
\* JSON object, the other fields are the parsed llmClassification.
Answer(valid, remote, verdict, tags) ==
    [valid |-> valid, IsRemote |-> remote, Verdict |-> verdict, Tags |-> tags]
\* llm.Complete: an error, or the answer text
Reply(err, text) == [err |-> err, text |-> text]

\* processor.Result with the error Process returns beside it; Trace and Job
\* are empty or hold one element (nil or set); Sent lists the prompts handed
\* to the completion service
Result(err, outcome, job, reason, trace, sent) ==
    [err |-> err, Outcome |-> outcome, Job |-> job, Reason |-> reason,
     Trace |-> trace, Sent |-> sent]

\* ProcessKeywordTrace recording a trace of the text for a keyword rejection
ProcessKeywordTrace(cfg, raw, id, reply) ==
    LET text == Text(raw) IN
    IF ~ContainsKeyword(cfg, text)
    THEN Result(FALSE, "rejected", <<>>, "missing required keywords",
                <<[prompt |-> BuildPrompt(cfg, text),
                   llm_response |-> Answer(FALSE, FALSE, "", <<>>)]>>, <<>>)
    ELSE LET prompt == BuildPrompt(cfg, text)
             trace  == [prompt |-> prompt, llm_response |-> reply.text]
         IN IF reply.err THEN Result(TRUE, "", <<>>, "", <<>>, <<prompt>>)
            ELSE IF ~reply.text.valid THEN Result(TRUE, "", <<>>, "", <<>>, <<prompt>>)
            ELSE IF ~reply.text.IsRemote
                 THEN Result(FALSE, "rejected", <<>>,
                             IF reply.text.Verdict = "" THEN "llm rejected"
                             ELSE reply.text.Verdict,
                             <<trace>>, <<prompt>>)
            ELSE Result(FALSE, "accepted", <<BuildJob(cfg, raw, id, reply.text)>>, "",
                        <<trace>>, <<prompt>>)

\* Processor.Process on the raw job with ID id, reply being what the
\* completion service does when it is called
Process(cfg, raw, id, reply) ==
    LET text == Text(raw) IN
    IF ~ContainsKeyword(cfg, text)
    THEN Result(FALSE, "rejected", <<>>, "missing required keywords", <<>>, <<>>)
    ELSE LET prompt == BuildPrompt(cfg, text)
             trace  == [prompt |-> prompt, llm_response |-> reply.text]
         IN IF reply.err THEN Result(TRUE, "", <<>>, "", <<>>, <<prompt>>)
            ELSE IF ~reply.text.valid THEN Result(TRUE, "", <<>>, "", <<>>, <<prompt>>)
            ELSE IF ~reply.text.IsRemote
                 THEN Result(FALSE, "rejected", <<>>,
                             IF reply.text.Verdict = "" THEN "llm rejected"
                             ELSE reply.text.Verdict,
                             <<trace>>, <<prompt>>)
            ELSE Result(FALSE, "accepted", <<BuildJob(cfg, raw, id, reply.text)>>, "",
                        <<trace>>, <<prompt>>)

\* The configuration of the cycles: one keyword, two candidate tags.
CycleCfg == Config(<< <<"g", "o">> >>, << <<"G", "o">>, <<" ", "R", "s">> >>)

\* What the completion service does in the cycles: it fails, answers with
\* text that is no JSON, declines, or accepts with one candidate tag in
\* another spelling and one tag that is no candidate.
CycleReplies ==
    { Reply(TRUE, Answer(FALSE, FALSE, "", <<>>)),
      Reply(FALSE, Answer(FALSE, FALSE, "", <<>>)),
      Reply(FALSE, Answer(TRUE, FALSE, "", <<>>)),
      Reply(FALSE, Answer(TRUE, TRUE, "", << <<"g", "O">>, <<"x">> >>)) }

\* every result Process can return for one raw job in a cycle
ProcessResults(raw, id) == {Process(CycleCfg, raw, id, reply) : reply \in CycleReplies}

\* ------------------------------------------------- the schedule string
IsDigit(c) == c \in {"0", "1", "2", "3", "4", "5", "6", "7", "8", "9"}
DigitVal(c) == CASE c = "0" -> 0 [] c = "1" -> 1 [] c = "2" -> 2 [] c = "3" -> 3
                 [] c = "4" -> 4 [] c = "5" -> 5 [] c = "6" -> 6 [] c = "7" -> 7
                 [] c = "8" -> 8 [] c = "9" -> 9

RECURSIVE DigitsVal(_)
DigitsVal(s) ==
    IF s = <<>> THEN 0
    ELSE DigitsVal(SubSeq(s, 1, Len(s) - 1)) * 10 + DigitVal(s[Len(s)])

\* strconv.Atoi: an optional sign and at least one digit, nothing else
Atoi(s) ==
    LET signed == s # <<>> /\ Head(s) \in {"+", "-"}
        digits == IF signed THEN Tail(s) ELSE s
    IN IF digits = <<>> \/ \E k \in 1..Len(digits) : ~IsDigit(digits[k])
       THEN [ok |-> FALSE, v |-> 0]
       ELSE [ok |-> TRUE,
             v  |-> IF signed /\ Head(s) = "-" THEN 0 - DigitsVal(digits)
                    ELSE DigitsVal(digits)]

RECURSIVE Split(_, _)
\* strings.Split on a one-character separator
Split(s, sep) ==
    IF \A k \in 1..Len(s) : s[k] # sep THEN <<s>>
    ELSE LET at == CHOOSE k \in 1..Len(s) : s[k] = sep /\ \A m \in 1..(k - 1) : s[m] # sep
         IN <<SubSeq(s, 1, at - 1)>> \o Split(SubSeq(s, at + 1, Len(s)), sep)

RECURSIVE Fields(_)
\* strings.Fields: the maximal runs of characters that are no white space
Fields(s) ==
    LET t == TrimLeft(s) IN
    IF t = <<>> THEN <<>>
    ELSE LET n == IF \A k \in 1..Len(t) : ~IsSpace(t[k]) THEN Len(t)
                  ELSE (CHOOSE k \in 1..Len(t) :
                          IsSpace(t[k]) /\ \A m \in 1..(k - 1) : ~IsSpace(t[m])) - 1
         IN <<SubSeq(t, 1, n)>> \o Fields(SubSeq(t, n + 1, Len(t)))

\* the values one part of a cron field stands for: [ok, vals]
CronPart(part, min, max) ==
    IF part = <<"*">> THEN [ok |-> TRUE, vals |-> min..max]
    ELSE IF HasPrefix(part, <<"*", "/">>)
    THEN LET step == Atoi(SubSeq(part, 3, Len(part))) IN
         IF ~step.ok \/ step.v <= 0 THEN [ok |-> FALSE, vals |-> {}]
         ELSE [ok |-> TRUE, vals |-> {i \in min..max : (i - min) % step.v = 0}]
    ELSE LET v == Atoi(part) IN
         IF ~v.ok \/ v.v < min \/ v.v > max THEN [ok |-> FALSE, vals |-> {}]
         ELSE [ok |-> TRUE, vals |-> {v.v}]

\* parseCronField: the union of the parts between commas, blank parts left
\* out; an invalid part or no value at all is an error
ParseCronField(expr, min, max) ==
    LET trimmed == TrimSpace(expr)
        parts   == Split(trimmed, ",")
        used    == {k \in 1..Len(parts) : TrimSpace(parts[k]) # <<>>}
        val(k)  == CronPart(TrimSpace(parts[k]), min, max)
        vals    == UNION {val(k).vals : k \in used}
    IN IF trimmed = <<>> \/ (\E k \in used : ~val(k).ok) \/ vals = {}
       THEN [ok |-> FALSE, vals |-> {}]
       ELSE [ok |-> TRUE, vals |-> vals]

\* parseCronSpec: [ok, schedule]
ParseCronSpec(spec) ==
    LET parts == Fields(spec) IN
    IF Len(parts) # 5 THEN [ok |-> FALSE, schedule |-> <<>>]
    ELSE LET minutes == ParseCronField(parts[1], 0, 59)
             hours   == ParseCronField(parts[2], 0, 23)
             doms    == ParseCronField(parts[3], 1, 31)
             months  == ParseCronField(parts[4], 1, 12)
             dows    == ParseCronField(parts[5], 0, 6)
         IN IF ~minutes.ok \/ ~hours.ok \/ ~doms.ok \/ ~months.ok \/ ~dows.ok
            THEN [ok |-> FALSE, schedule |-> <<>>]
            ELSE [ok |-> TRUE,
                  schedule |-> <<[minutes |-> minutes.vals, hours |-> hours.vals,
                                  doms |-> doms.vals, months |-> months.vals,
                                  dows |-> dows.vals]>>]

\* Durations are whole milliseconds.
Millisecond == 1
Second      == 1000 * Millisecond
Minute      == 60 * Second
Hour        == 60 * Minute

\* the units time.ParseDuration knows, of those the letters m, s and h spell
UnitOf(u) == CASE u = <<"m", "s">> -> <<Millisecond>>
               [] u = <<"s">> -> <<Second>>
               [] u = <<"m">> -> <<Minute>>
               [] u = <<"h">> -> <<Hour>>
               [] OTHER -> <<>>

\* the length of the longest prefix of s made of digits
DigitRun(s) == Cardinality({k \in 1..Len(s) : \A m \in 1..k : IsDigit(s[m])})
\* the length of the longest prefix of s without a digit
UnitRun(s) == Cardinality({k \in 1..Len(s) : \A m \in 1..k : ~IsDigit(s[m])})

RECURSIVE DurationGroups(_)
\* the loop of time.ParseDuration over the groups of a number and a unit
DurationGroups(s) ==
    IF s = <<>> THEN [ok |-> TRUE, d |-> 0]
    ELSE LET n    == DigitRun(s)
             rest == SubSeq(s, n + 1, Len(s))
             u    == UnitRun(rest)
             unit == UnitOf(SubSeq(rest, 1, u))
         IN IF n = 0 \/ u = 0 \/ unit = <<>> THEN [ok |-> FALSE, d |-> 0]
            ELSE LET more == DurationGroups(SubSeq(rest, u + 1, Len(rest))) IN
                 IF ~more.ok THEN more
                 ELSE [ok |-> TRUE, d |-> DigitsVal(SubSeq(s, 1, n)) * unit[1] + more.d]

\* time.ParseDuration for strings without a fraction: [ok, d]
ParseDuration(s) ==
    LET signed == s # <<>> /\ Head(s) \in {"+", "-"}
        body   == IF signed THEN Tail(s) ELSE s
    IN IF body = <<"0">> THEN [ok |-> TRUE, d |-> 0]
       ELSE IF body = <<>> THEN [ok |-> FALSE, d |-> 0]
       ELSE LET g == DurationGroups(body) IN
            IF ~g.ok THEN g
            ELSE [ok |-> TRUE, d |-> IF signed /\ Head(s) = "-" THEN 0 - g.d ELSE g.d]

\* parseSchedule taking every duration, positive or not
ParseScheduleAnyDuration(value) ==
    LET trimmed == TrimSpace(value)
        d       == ParseDuration(trimmed)
        c       == ParseCronSpec(trimmed)
    IN IF trimmed # <<>> /\ d.ok
       THEN [interval |-> d.d, spec |-> <<>>, cron |-> <<>>]
       ELSE IF trimmed # <<>> /\ c.ok
       THEN [interval |-> 0, spec |-> trimmed, cron |-> c.schedule]
       ELSE [interval |-> 2 * Hour, spec |-> <<>>, cron |-> <<>>]

\* parseSchedule: [interval, spec, cron], cron being empty (nil) or holding
\* the schedule
ParseSchedule(value) ==
    LET trimmed == TrimSpace(value)
        d       == ParseDuration(trimmed)
        c       == ParseCronSpec(trimmed)
    IN IF trimmed # <<>> /\ d.ok /\ d.d > 0
       THEN [interval |-> d.d, spec |-> <<>>, cron |-> <<>>]
       ELSE IF trimmed # <<>> /\ c.ok
       THEN [interval |-> 0, spec |-> trimmed, cron |-> c.schedule]
       ELSE [interval |-> 2 * Hour, spec |-> <<>>, cron |-> <<>>]

\* ------------------------------------------------------------ the calendar
\* An instant is the number of seconds since 2024-01-01T00:00:00Z, a Monday;
\* the clock is read in UTC.
IsLeap(y) == y % 4 = 0 /\ (y % 100 # 0 \/ y % 400 = 0)
DaysInYear(y) == IF IsLeap(y) THEN 366 ELSE 365
DaysInMonth(y, m) == CASE m = 2 -> (IF IsLeap(y) THEN 29 ELSE 28)
                       [] m \in {4, 6, 9, 11} -> 30
                       [] OTHER -> 31

RECURSIVE YearDay(_, _)
\* the year and the day in it (from 0) of the day d counted from 1 January y
YearDay(d, y) ==
    IF d < DaysInYear(y) THEN [year |-> y, day |-> d]
    ELSE YearDay(d - DaysInYear(y), y + 1)

RECURSIVE MonthDay(_, _, _)
\* the month and the day of the month of day d (from 0) counted from the
\* first of month m of year y
MonthDay(d, y, m) ==
    IF d < DaysInMonth(y, m) THEN [month |-> m, day |-> d + 1]
    ELSE MonthDay(d - DaysInMonth(y, m), y, m + 1)

RECURSIVE DaysBefore(_, _)
\* the days of year y in front of month m
DaysBefore(y, m) == IF m = 1 THEN 0 ELSE DaysBefore(y, m - 1) + DaysInMonth(y, m - 1)

\* the instant of a date of 2024 and a time of day
Date2024(month, day, hh, mm, ss) ==
    ((DaysBefore(2024, month) + day - 1) * 24 + hh) * 3600 + mm * 60 + ss

\* time.Time: Minute, Hour, Month, Day, Weekday
ClockMinute(t) == (t \div 60) % 60
ClockHour(t)   == (t \div 3600) % 24
ClockDate(t)   == LET yd == YearDay(t \div 86400, 2024) IN MonthDay(yd.day, yd.year, 1)
ClockWeekday(t) == ((t \div 86400) + 1) % 7

\* cronSchedule.matches
Matches(c, t) ==
    /\ ClockMinute(t) \in c.minutes
    /\ ClockHour(t) \in c.hours
    /\ ClockDate(t).month \in c.months
    /\ ClockDate(t).day \in c.doms
    /\ ClockWeekday(t) \in c.dows

\* ScanStart beginning at the minute of after itself
ScanStartSameMinute(after) == after - (after % 60)

\* after.Truncate(time.Minute).Add(time.Minute)
ScanStart(after) == (after - (after % 60)) + 60
\* ScanLimit that covers a leap year
ScanLimitLeapYear == 366 * 1440

\* the minutes cronSchedule.next looks at: one year of them
ScanLimit == 525600

\* ------------------------------------------------------------ the notifier
\* A value of a JSON map (datatypes.JSONMap): a boolean, a string, a number,
\* null, or an array.
JBool(b) == [kind |-> "bool", b |-> b, s |-> <<>>, n |-> 0]
JStr(s) == [kind |-> "string", b |-> FALSE, s |-> s, n |-> 0]
JNum(n) == [kind |-> "number", b |-> FALSE, s |-> <<>>, n |-> n]
JNull == [kind |-> "null", b |-> FALSE, s |-> <<>>, n |-> 0]
JArray == [kind |-> "array", b |-> FALSE, s |-> <<>>, n |-> 0]

\* m[k] of a Go map: the zero value (nil) for a key the map does not hold
MapGet(m, k) == IF k \in DOMAIN m THEN m[k] ELSE JNull

\* isTruthy
IsTruthy(v) ==
    CASE v.kind = "bool" -> v.b
      [] v.kind = "string" -> TrimSpace(ToLower(v.s)) = <<"t", "r", "u", "e">>
      [] v.kind = "number" -> v.n # 0
      [] OTHER -> v.kind # "null"

\* model.Subscription: the address, the channel and the tag map
Subscription(email, channel, tags) == [Email |-> email, Channel |-> channel, Tags |-> tags]

\* model.Job as the notifier reads it: Title goes into the mail,
\* NormalizedTags is matched.  buildJob always sets NormalizedTags to a map,
\* so the nil test of jobMatches never succeeds and is not modelled.
NewJob(id, title, tags) == [ID |-> id, Title |-> title, NormalizedTags |-> tags]

\* jobMatches accepting a job that holds one of the flagged tags
JobMatchesAny(job, tags) ==
    \/ DOMAIN tags = {}
    \/ \E k \in DOMAIN tags : IsTruthy(tags[k]) /\ IsTruthy(MapGet(job.NormalizedTags, k))

\* jobMatches
JobMatches(job, tags) ==
    \/ DOMAIN tags = {}
    \/ \A k \in DOMAIN tags : IsTruthy(tags[k]) => IsTruthy(MapGet(job.NormalizedTags, k))

\* filterJobsBySubscription
FilterJobsBySubscription(sub, jobs) ==
    IF DOMAIN sub.Tags = {} THEN jobs
    ELSE LET Keep(job) == JobMatches(job, sub.Tags) IN SelectSeq(jobs, Keep)

\* the switch of Notify delivering on every channel
IsEmailChannelAny(channel) == channel = channel

\* the switch of Notify on the channel: the cases "email" and ""
IsEmailChannel(channel) ==
    ToLower(TrimSpace(channel)) \in {<<"e", "m", "a", "i", "l">>, <<>>}

\* buildBody: one line per job, with its title
BuildBody(jobs) == [k \in 1..Len(jobs) |-> jobs[k].Title]

\* the EmailMessage EmailNotifier.Notify hands to the sender, cfg.To being
\* the subscriber's address alone
EmailMessage(to, jobs) == [To |-> to, Body |-> BuildBody(jobs)]

\* ------------------------------------------------ the final store, queried
\* model.Job as the queries read it: the primary key, published_at and the
\* normalized_tags column
StoredJob(id, published, tags) ==
    [ID |-> id, PublishedAt |-> published, NormalizedTags |-> tags]

\* json_extract(normalized_tags, '$."tag"') = 1: JSON true is read as 1 and
\* false as 0, a number as itself, a text never equals 1, and a key the
\* object does not hold gives NULL
JsonExtractIsOne(m, tag) ==
    LET v == MapGet(m, tag) IN
    CASE v.kind = "bool" -> v.b
      [] v.kind = "number" -> v.n = 1
      [] OTHER -> FALSE

\* storage.JobQueryOptions
JobQueryOptions(limit, offset, tags) == [Limit |-> limit, Offset |-> offset, Tags |-> tags]

\* applyJobFilters keeping the rows that hold one of the requested tags
ApplyJobFiltersAny(rows, opts) ==
    IF Len(opts.Tags) = 0 THEN rows
    ELSE {j \in rows : \E k \in 1..Len(opts.Tags) :
                         opts.Tags[k] # "" /\ JsonExtractIsOne(j.NormalizedTags, opts.Tags[k])}

\* applyJobFilters: one Where per requested tag that is not empty
ApplyJobFilters(rows, opts) ==
    IF Len(opts.Tags) = 0 THEN rows
    ELSE {j \in rows : \A k \in 1..Len(opts.Tags) :
                         opts.Tags[k] # "" => JsonExtractIsOne(j.NormalizedTags, opts.Tags[k])}

\* Order("published_at DESC"): every order of the rows in which published_at
\* never rises; rows published at the same time come in any order
OrderByPublishedDesc(rows) ==
    {s \in [1..Cardinality(rows) -> rows] :
        /\ \A i, j \in 1..Cardinality(rows) : i # j => s[i] # s[j]
        /\ \A i, j \in 1..Cardinality(rows) : i < j => s[i].PublishedAt >= s[j].PublishedAt}

\* LIMIT and OFFSET with the limit taken before the offset
LimitOffsetLimitFirst(s, opts) ==
    LET cut == IF opts.Limit > 0 /\ opts.Limit < Len(s) THEN SubSeq(s, 1, opts.Limit) ELSE s
        skip == IF opts.Offset > 0 THEN opts.Offset ELSE 0
    IN SubSeq(cut, skip + 1, Len(cut))

\* Offset(opts.Offset) when it is positive, Limit(opts.Limit) when it is
\* positive (SQLite: LIMIT -1 OFFSET n when only the offset is set)
LimitOffset(s, opts) ==
    LET skip == IF opts.Offset > 0 THEN opts.Offset ELSE 0
        rest == SubSeq(s, skip + 1, Len(s))
    IN IF opts.Limit > 0 /\ opts.Limit < Len(rest) THEN SubSeq(rest, 1, opts.Limit) ELSE rest

\* Store.ListJobs: the lists the query can return
ListJobs(rows, opts) ==
    {LimitOffset(s, opts) : s \in OrderByPublishedDesc(ApplyJobFilters(rows, opts))}

\* Store.CountJobs
CountJobs(rows, opts) == Cardinality(ApplyJobFilters(rows, opts))

\* ------------------------------------------------------------------ state
VARIABLES
    ids,        \* the post ids the listing site serves
    mode,       \* "interval" | "cron": Scheduler.cron = nil or not
    notif,      \* TRUE iff Scheduler.notif # nil
    running,    \* Scheduler.running
    pc,         \* position of every process
    startCtx,   \* the context given to Start: "live" | "canceled"
    cycleCtx,   \* the context of each process's cycle: "none" | "live" | "deadline" | "canceled"
    tickCh,     \* the ticker channel; an entry tells whether it arrived during a cycle of the driver
    drained,    \* ticks of the driver's last cycle discarded so far by the drain loop
    loc,        \* the locals of runOnce in every process
    ret,        \* the last return of runOnce since a cycle began: its caller, the return statement, the values
    startRet,   \* what Start returned
    rawJobs,    \* the raw job store
    jobStore,   \* the final job store
    call        \* the last direct call of a store, fetcher or processor operation: its arguments and result

vars == <<ids, mode, notif, running, pc, startCtx, cycleCtx, tickCh, drained,
          loc, ret, startRet, rawJobs, jobStore, call>>

NoCall == [op |-> "none"]

NoRet == [by |-> 0 - 1, at |-> "none", created |-> 0, err |-> "none"]
NoLoc == [jobs |-> <<>>, pending |-> <<>>, idx |-> 1,
          result |-> <<>>, processed |-> <<>>,
          res |-> [Created |-> 0, NewJobs |-> <<>>],
          calls |-> <<>>, notified |-> <<>>, notifErr |-> FALSE]

CyclePcs == {"fetch", "fetchFailed", "upsertRaw", "list", "process", "update",
             "upsertJobs", "notify", "notified"}
\* p is between running.Swap(true) and the deferred running.Store(false)
InCycle(p) == pc[p] \in CyclePcs

\* The server: buildApp always hands NewScheduler a notifier.
Init ==
    /\ ids = 1..SchedIds
    /\ mode \in {"interval", "cron"}
    /\ notif = TRUE
    /\ running = FALSE
    /\ pc = [p \in Procs |-> IF p = Driver THEN "start" ELSE "runOnce"]
    /\ startCtx = "live"
    /\ cycleCtx = [p \in Procs |-> "none"]
    /\ tickCh = <<>>
    /\ drained = 0
    /\ loc = [p \in Procs |-> NoLoc]
    /\ ret = NoRet
    /\ startRet = "none"
    /\ rawJobs = <<>>
    /\ jobStore = {}
    /\ call = NoCall

\* ------------------------------------------------------- runOnce, helpers
\* where the driver goes on when its loop continues
LoopOn == IF mode = "cron" THEN "next" ELSE "drain"

\* CycleChecked that goes on with the loop whatever the cycle returned
CycleCheckedRetry(err) ==
    /\ pc' = [pc EXCEPT ![Driver] = LoopOn]
    /\ UNCHANGED startRet

\* the driver, on the return of runOnce:
\* if _, err := s.runOnce(ctx); err != nil { return err }
CycleChecked(err) ==
    IF err # "nil"
    THEN /\ pc' = [pc EXCEPT ![Driver] = "stopped"]
         /\ startRet' = err
    ELSE /\ pc' = [pc EXCEPT ![Driver] = LoopOn]
         /\ UNCHANGED startRet

\* Returned where the error of a manual caller ends the periodic loop too
ReturnedStopsLoop(p, at, created, err) ==
    /\ ret' = [by |-> p, at |-> at, created |-> created, err |-> err]
    /\ IF p = Driver THEN CycleChecked(err)
       ELSE IF err # "nil"
            THEN /\ pc' = [pc EXCEPT ![p] = "runOnce", ![Driver] = "stopped"]
                 /\ startRet' = err
            ELSE /\ pc' = [pc EXCEPT ![p] = "runOnce"]
                 /\ UNCHANGED startRet

\* runOnce hands (created, err) to its caller: the driver checks the error,
\* a manual caller is done and may call again
Returned(p, at, created, err) ==
    /\ ret' = [by |-> p, at |-> at, created |-> created, err |-> err]
    /\ IF p = Driver THEN CycleChecked(err)
       ELSE /\ pc' = [pc EXCEPT ![p] = "runOnce"]
            /\ UNCHANGED startRet

\* Return without the defer: the flag is cleared on the success path only
ReturnNoDefer(p, at, created, err) ==
    /\ running' = IF err = "nil" THEN FALSE ELSE running
    /\ cycleCtx' = [cycleCtx EXCEPT ![p] = "none"]
    /\ loc' = [loc EXCEPT ![p] = NoLoc]
    /\ Returned(p, at, created, err)

\* return (created, err) from inside the cycle, at the return statement
\* `at`: the deferred cancel() and running.Store(false) run, the locals are
\* gone
Return(p, at, created, err) ==
    /\ running' = FALSE
    /\ cycleCtx' = [cycleCtx EXCEPT ![p] = "none"]
    /\ loc' = [loc EXCEPT ![p] = NoLoc]
    /\ Returned(p, at, created, err)

\* go on inside the cycle
Goto(p, label, l) ==
    /\ pc' = [pc EXCEPT ![p] = label]
    /\ loc' = [loc EXCEPT ![p] = l]
    /\ UNCHANGED <<running, cycleCtx, ret, startRet>>

\* Advance leaving the loop at the first accepted job
AdvanceFirstAccepted(p, l) ==
    IF l.idx <= Len(l.pending) /\ Len(l.processed) = 0 THEN Goto(p, "process", l)
    ELSE IF Len(l.processed) = 0 THEN Return(p, "noProcessed", 0, "nil")
    ELSE Goto(p, "upsertJobs", l)

\* the head of the loop over pending and what follows it
Advance(p, l) ==
    IF l.idx <= Len(l.pending) THEN Goto(p, "process", l)
    ELSE IF Len(l.processed) = 0 THEN Return(p, "noProcessed", 0, "nil")
    ELSE Goto(p, "upsertJobs", l)

\* the outcomes of a store call that reaches the database: gorm runs it
\* WithContext(ctx), so it fails once the cycle's context is done
StoreOutcomes(p) == IF cycleCtx[p] = "live" THEN {TRUE, FALSE} ELSE {FALSE}

Called(l, op) == [l EXCEPT !.calls = Append(@, op)]

\* the context a cycle gets: context.WithTimeout(ctx, s.timeout), where ctx
\* is the errgroup context of Start for the driver and
\* context.Background() for a manual caller
NewCycleCtx(p) == IF p = Driver /\ startCtx = "canceled" THEN "canceled" ELSE "live"

\* ------------------------------------------------------- runOnce, actions
\* RunOnceBusy reporting the overlap as an error
RunOnceBusyError(p) ==
    /\ pc[p] = "runOnce"
    /\ running
    /\ Returned(p, "swap", 0, "already running")
    /\ UNCHANGED <<call, ids, mode, notif, running, startCtx, cycleCtx, tickCh, drained,
                   loc, rawJobs, jobStore>>

\* s.running.Swap(true) returned true: the trigger is dropped
RunOnceBusy(p) ==
    /\ pc[p] = "runOnce"
    /\ running
    /\ Returned(p, "swap", 0, "nil")
    /\ UNCHANGED <<call, ids, mode, notif, running, startCtx, cycleCtx, tickCh, drained,
                   loc, rawJobs, jobStore>>

\* RunOnceEnter with a plain Store(true) in place of the Swap
RunOnceEnterNoSwap(p) ==
    /\ pc[p] = "runOnce"
    /\ running' = TRUE
    /\ pc' = [pc EXCEPT ![p] = "fetch"]
    /\ cycleCtx' = [cycleCtx EXCEPT ![p] = NewCycleCtx(p)]
    /\ loc' = [loc EXCEPT ![p] = NoLoc]
    /\ ret' = NoRet
    /\ UNCHANGED <<call, ids, mode, notif, startCtx, tickCh, drained, startRet, rawJobs, jobStore>>

\* s.running.Swap(true) returned false: the cycle starts
RunOnceEnter(p) ==
    /\ pc[p] = "runOnce"
    /\ ~running
    /\ running' = TRUE
    /\ pc' = [pc EXCEPT ![p] = "fetch"]
    /\ cycleCtx' = [cycleCtx EXCEPT ![p] = NewCycleCtx(p)]
    /\ loc' = [loc EXCEPT ![p] = NoLoc]
    /\ ret' = NoRet
    /\ UNCHANGED <<call, ids, mode, notif, startCtx, tickCh, drained, startRet, rawJobs, jobStore>>

\* jobs, err := s.fetcher.Fetch(ctx)
DoFetch(p) ==
    /\ pc[p] = "fetch"
    /\ \E site \in CycleSites(ids) :
         LET r == IF cycleCtx[p] = "live" THEN Fetch(site) ELSE Fetch(AllFail(site))
             l == [Called(loc[p], "Fetch") EXCEPT !.jobs = r.jobs]
         IN Goto(p, IF r.err THEN "fetchFailed" ELSE "upsertRaw", l)
    /\ UNCHANGED <<call, ids, mode, notif, startCtx, tickCh, drained, rawJobs, jobStore>>

\* if err != nil { return 0, "fetch jobs: ..." }
FetchFailed(p) ==
    /\ pc[p] = "fetchFailed"
    /\ Return(p, "fetch", 0, "fetch jobs")
    /\ UNCHANGED <<call, ids, mode, notif, startCtx, tickCh, drained, rawJobs, jobStore>>

\* rawJobs: one model.RawJob for every fetched candidate, in order
RawBatch(jobs) == [k \in 1..Len(jobs) |-> Candidate(jobs[k].ID)]

\* s.store.UpsertRawJobs(ctx, rawJobs); an empty batch does not reach the
\* database.
DoUpsertRaw(p) ==
    /\ pc[p] = "upsertRaw"
    /\ \E ok \in (IF loc[p].jobs = <<>> THEN {TRUE} ELSE StoreOutcomes(p)) :
         IF ok
         THEN /\ rawJobs' = UpsertRawJobs(rawJobs, RawBatch(loc[p].jobs)).store
              /\ Goto(p, "list", Called(loc[p], "UpsertRawJobs"))
         ELSE /\ UNCHANGED rawJobs
              /\ Return(p, "upsertRaw", 0, "upsert raw jobs")
    /\ UNCHANGED <<call, ids, mode, notif, startCtx, tickCh, drained, jobStore>>

\* pending, err := s.store.ListRawJobs(ctx, {pending, s.batchSize})
DoList(p) ==
    /\ pc[p] = "list"
    /\ \E ok \in StoreOutcomes(p) :
         IF ok
         THEN Advance(p, [Called(loc[p], "ListRawJobs") EXCEPT
                             !.pending = ListRawJobs(rawJobs, BatchSize), !.idx = 1])
         ELSE Return(p, "list", 0, "list raw jobs")
    /\ UNCHANGED <<call, ids, mode, notif, startCtx, tickCh, drained, rawJobs, jobStore>>

\* DoProcess taking a hard error for a rejection
DoProcessErrorRejects(p) ==
    /\ pc[p] = "process"
    /\ LET id == loc[p].pending[loc[p].idx] IN
       \E r \in ProcessResults(rawJobs[id], id) :
         Goto(p, "update", [Called(loc[p], "Process") EXCEPT !.result = r])
    /\ UNCHANGED <<call, ids, mode, notif, startCtx, tickCh, drained, rawJobs, jobStore>>

\* res, err := s.processor.Process(ctx, raw)
DoProcess(p) ==
    /\ pc[p] = "process"
    /\ LET id == loc[p].pending[loc[p].idx] IN
       \E r \in ProcessResults(rawJobs[id], id) :
         IF r.err
         THEN Return(p, "process", 0, "process raw job")
         ELSE Goto(p, "update", [Called(loc[p], "Process") EXCEPT !.result = r])
    /\ UNCHANGED <<call, ids, mode, notif, startCtx, tickCh, drained, rawJobs, jobStore>>

\* DoUpdate writing the default status (processed) whatever the outcome
DoUpdateAlwaysProcessed(p) ==
    /\ pc[p] = "update"
    /\ LET l  == loc[p]
           r  == l.result
           id == l.pending[l.idx]
           accepted == r.Outcome = "accepted" /\ r.Job # <<>>
           update == [Status  |-> "processed",
                      Reason  |-> IF accepted THEN "" ELSE r.Reason,
                      Details |-> r.Trace]
           l2 == [Called(l, "UpdateRawJobStatus") EXCEPT
                     !.processed = IF accepted THEN @ \o r.Job ELSE @]
       IN \E ok \in StoreOutcomes(p) :
            IF ok
            THEN /\ rawJobs' = UpdateRawJobStatus(rawJobs, id, update)
                 /\ Advance(p, [l2 EXCEPT !.idx = @ + 1, !.result = <<>>])
            ELSE /\ UNCHANGED rawJobs
                 /\ Return(p, "update", 0, "update raw job status")
    /\ UNCHANGED <<call, ids, mode, notif, startCtx, tickCh, drained, jobStore>>

\* the status update of one classified raw job and the append to processed
DoUpdate(p) ==
    /\ pc[p] = "update"
    /\ LET l  == loc[p]
           r  == l.result
           id == l.pending[l.idx]
           accepted == r.Outcome = "accepted" /\ r.Job # <<>>
           update == [Status  |-> IF accepted THEN "processed" ELSE "rejected",
                      Reason  |-> IF accepted THEN "" ELSE r.Reason,
                      Details |-> r.Trace]
           l2 == [Called(l, "UpdateRawJobStatus") EXCEPT
                     !.processed = IF accepted THEN @ \o r.Job ELSE @]
       IN \E ok \in StoreOutcomes(p) :
            IF ok
            THEN /\ rawJobs' = UpdateRawJobStatus(rawJobs, id, update)
                 /\ Advance(p, [l2 EXCEPT !.idx = @ + 1, !.result = <<>>])
            ELSE /\ UNCHANGED rawJobs
                 /\ Return(p, "update", 0, "update raw job status")
    /\ UNCHANGED <<call, ids, mode, notif, startCtx, tickCh, drained, jobStore>>

\* ShouldNotify without the nil test on the notifier
ShouldNotifyNoNilTest(res) == Len(res.NewJobs) > 0

\* if s.notif != nil && len(res.NewJobs) > 0
ShouldNotify(res) == notif /\ Len(res.NewJobs) > 0

\* res, err := s.store.UpsertJobs(ctx, processed) and the test that decides
\* whether the notifier is called
DoUpsertJobs(p) ==
    /\ pc[p] = "upsertJobs"
    /\ LET r == UpsertJobs(jobStore, loc[p].processed)
           l == Called(loc[p], "UpsertJobs")
       IN \E ok \in StoreOutcomes(p) :
            IF ok
            THEN /\ jobStore' = r.store
                 /\ LET l2 == [l EXCEPT !.res = [Created |-> r.Created, NewJobs |-> r.NewJobs]]
                    IN IF ShouldNotify(l2.res)
                       THEN Goto(p, "notify", l2)
                       ELSE Return(p, "end", r.Created, "nil")
            ELSE /\ UNCHANGED jobStore
                 /\ Return(p, "upsertJobs", 0, "upsert jobs")
    /\ UNCHANGED <<call, ids, mode, notif, startCtx, tickCh, drained, rawJobs>>

\* err := s.notif.Notify(ctx, res.NewJobs)
DoNotify(p) ==
    /\ pc[p] = "notify"
    /\ \E ok \in BOOLEAN :
         Goto(p, "notified", [Called(loc[p], "Notify") EXCEPT
                                 !.notified = Append(@, loc[p].res.NewJobs),
                                 !.notifErr = ~ok])
    /\ UNCHANGED <<call, ids, mode, notif, startCtx, tickCh, drained, rawJobs, jobStore>>

\* NotifyChecked returning 0 with the error, as the other error paths do
NotifyCheckedZero(p) ==
    /\ pc[p] = "notified"
    /\ IF loc[p].notifErr THEN Return(p, "notify", 0, "notify")
       ELSE Return(p, "end", loc[p].res.Created, "nil")
    /\ UNCHANGED <<call, ids, mode, notif, startCtx, tickCh, drained, rawJobs, jobStore>>

\* if err != nil { return res.Created, "notify: ..." }; return res.Created, nil
NotifyChecked(p) ==
    /\ pc[p] = "notified"
    /\ IF loc[p].notifErr THEN Return(p, "notify", loc[p].res.Created, "notify")
       ELSE Return(p, "end", loc[p].res.Created, "nil")
    /\ UNCHANGED <<call, ids, mode, notif, startCtx, tickCh, drained, rawJobs, jobStore>>

\* the deadline of the cycle's context (s.timeout) passes
Timeout(p) ==
    /\ cycleCtx[p] = "live"
    /\ cycleCtx' = [cycleCtx EXCEPT ![p] = "deadline"]
    /\ UNCHANGED <<call, ids, mode, notif, running, pc, startCtx, tickCh, drained, loc,
                   ret, startRet, rawJobs, jobStore>>

\* ------------------------------------------------------------ the driver
\* Start: the errgroup goroutine runs startCron or the ticker loop
Start ==
    /\ pc[Driver] = "start"
    /\ pc' = [pc EXCEPT ![Driver] = IF mode = "cron" THEN "next" ELSE "select"]
    /\ UNCHANGED <<call, ids, mode, notif, running, startCtx, cycleCtx, tickCh, drained,
                   loc, ret, startRet, rawJobs, jobStore>>

\* the ticker delivers a tick; a tick that finds the channel full is lost
Tick ==
    /\ mode = "interval"
    /\ pc[Driver] \notin {"start", "stopped"}
    /\ Len(tickCh) < TickCap
    /\ tickCh' = Append(tickCh, InCycle(Driver))
    /\ UNCHANGED <<call, ids, mode, notif, running, pc, startCtx, cycleCtx, drained, loc,
                   ret, startRet, rawJobs, jobStore>>

\* select: case <-ch
SelectTick ==
    /\ pc[Driver] = "select"
    /\ tickCh # <<>>
    /\ tickCh' = Tail(tickCh)
    /\ pc' = [pc EXCEPT ![Driver] = "runOnce"]
    /\ UNCHANGED <<call, ids, mode, notif, running, startCtx, cycleCtx, drained, loc, ret,
                   startRet, rawJobs, jobStore>>

\* select: case <-ctx.Done(), in the ticker loop and in startCron
SelectDone ==
    /\ pc[Driver] \in {"select", "timer"}
    /\ startCtx = "canceled"
    /\ pc' = [pc EXCEPT ![Driver] = "stopped"]
    /\ startRet' = "context canceled"
    /\ UNCHANGED <<call, ids, mode, notif, running, startCtx, cycleCtx, tickCh, drained,
                   loc, ret, rawJobs, jobStore>>

\* drain: case <-ch: continue
DrainTick ==
    /\ pc[Driver] = "drain"
    /\ tickCh # <<>>
    /\ tickCh' = Tail(tickCh)
    /\ drained' = IF Head(tickCh) THEN drained + 1 ELSE drained
    /\ UNCHANGED <<call, ids, mode, notif, running, pc, startCtx, cycleCtx, loc, ret,
                   startRet, rawJobs, jobStore>>

\* DrainDone without the drain loop
DrainDoneEarly ==
    /\ pc[Driver] = "drain"
    /\ pc' = [pc EXCEPT ![Driver] = "select"]
    /\ drained' = 0
    /\ UNCHANGED <<call, ids, mode, notif, running, startCtx, cycleCtx, tickCh,
                   loc, ret, startRet, rawJobs, jobStore>>

\* drain: default: break drain
DrainDone ==
    /\ pc[Driver] = "drain"
    /\ tickCh = <<>>
    /\ pc' = [pc EXCEPT ![Driver] = "select"]
    /\ drained' = 0
    /\ UNCHANGED <<call, ids, mode, notif, running, startCtx, cycleCtx, tickCh,
                   loc, ret, startRet, rawJobs, jobStore>>

\* startCron: next, err := s.cron.next(s.now()); the timer is armed on
\* success, the error is returned otherwise
CronNext ==
    /\ pc[Driver] = "next"
    /\ \E found \in BOOLEAN :
         IF found
         THEN /\ pc' = [pc EXCEPT ![Driver] = "timer"]
              /\ UNCHANGED startRet
         ELSE /\ pc' = [pc EXCEPT ![Driver] = "stopped"]
              /\ startRet' = "compute next cron time"
    /\ UNCHANGED <<call, ids, mode, notif, running, startCtx, cycleCtx, tickCh, drained,
                   loc, ret, rawJobs, jobStore>>

\* startCron: case <-timer.C
TimerFire ==
    /\ pc[Driver] = "timer"
    /\ pc' = [pc EXCEPT ![Driver] = "runOnce"]
    /\ UNCHANGED <<call, ids, mode, notif, running, startCtx, cycleCtx, tickCh, drained,
                   loc, ret, startRet, rawJobs, jobStore>>

\* Cancel when the cycle's context is derived from context.Background()
CancelNoPropagate ==
    /\ startCtx = "live"
    /\ startCtx' = "canceled"
    /\ UNCHANGED <<call, ids, mode, notif, running, pc, cycleCtx, tickCh, drained, loc,
                   ret, startRet, rawJobs, jobStore>>

\* the context given to Start is cancelled (SIGINT / SIGTERM); the
\* cancellation reaches every context derived from it
Cancel ==
    /\ startCtx = "live"
    /\ startCtx' = "canceled"
    /\ cycleCtx' = [cycleCtx EXCEPT ![Driver] = IF @ = "live" THEN "canceled" ELSE @]
    /\ UNCHANGED <<call, ids, mode, notif, running, pc, tickCh, drained, loc, ret,
                   startRet, rawJobs, jobStore>>

Next ==
    \/ Start
    \/ Tick
    \/ SelectTick
    \/ SelectDone
    \/ DrainTick
    \/ DrainDone
    \/ CronNext
    \/ TimerFire
    \/ Cancel
    \/ \E p \in Procs : RunOnceBusy(p)
    \/ \E p \in Procs : RunOnceEnter(p)
    \/ \E p \in Procs : DoFetch(p)
    \/ \E p \in Procs : FetchFailed(p)
    \/ \E p \in Procs : DoUpsertRaw(p)
    \/ \E p \in Procs : DoList(p)
    \/ \E p \in Procs : DoProcess(p)
    \/ \E p \in Procs : DoUpdate(p)
    \/ \E p \in Procs : DoUpsertJobs(p)
    \/ \E p \in Procs : DoNotify(p)
    \/ \E p \in Procs : NotifyChecked(p)
    \/ \E p \in Procs : Timeout(p)

Spec == Init /\ [][Next]_vars

\* One caller of RunOnce and no driver (Start is never called; the one-shot
\* command uses the scheduler this way), with or without a notifier.
InitCycle ==
    /\ ids = 1..NumIds
    /\ mode = "interval"
    /\ notif \in BOOLEAN
    /\ running = FALSE
    /\ pc = [p \in Procs |-> IF p = Driver THEN "start" ELSE "runOnce"]
    /\ startCtx = "live"
    /\ cycleCtx = [p \in Procs |-> "none"]
    /\ tickCh = <<>>
    /\ drained = 0
    /\ loc = [p \in Procs |-> NoLoc]
    /\ ret = NoRet
    /\ startRet = "none"
    /\ rawJobs = <<>>
    /\ jobStore = {}
    /\ call = NoCall

NextCycle ==
    \/ RunOnceEnter(1)
    \/ DoFetch(1)
    \/ FetchFailed(1)
    \/ DoUpsertRaw(1)
    \/ DoList(1)
    \/ DoProcess(1)
    \/ DoUpdate(1)
    \/ DoUpsertJobs(1)
    \/ DoNotify(1)
    \/ NotifyChecked(1)
    \/ Timeout(1)

SpecCycle == InitCycle /\ [][NextCycle]_vars

\* ------------------------------------------------ the stores, called directly
\* The texts and the batches a caller of the stores hands in.
StoreTitles == {<<"a">>, <<"b">>}
SeqsUpTo(S, n) == UNION {[1..k -> S] : k \in 0..n}
\* (the first posting comes with either text, the others with one)
RawBatches ==
    SeqsUpTo({RawEntry(1, t, "") : t \in StoreTitles}
             \cup {RawEntry(k, <<"a">>, "") : k \in 2..StoreKeys}, MaxBatch)
JobBatches == SeqsUpTo({Job(k, t, {}) : k \in 1..StoreKeys, t \in StoreTitles}, MaxBatch)
\* the status updates the scheduler issues: accepted, rejected by the
\* keyword filter, rejected by the completion service
StatusUpdates ==
    { [Status |-> "processed", Reason |-> "", Details |-> <<"trace">>],
      [Status |-> "rejected", Reason |-> "missing required keywords", Details |-> <<>>],
      [Status |-> "rejected", Reason |-> "llm rejected", Details |-> <<"trace">>] }

\* no scheduler is running: the stores are empty and every process is at rest
Idle ==
    /\ ids = 1..StoreKeys
    /\ mode = "interval"
    /\ notif = FALSE
    /\ running = FALSE
    /\ pc = [p \in Procs |-> IF p = Driver THEN "start" ELSE "runOnce"]
    /\ startCtx = "live"
    /\ cycleCtx = [p \in Procs |-> "none"]
    /\ tickCh = <<>>
    /\ drained = 0
    /\ loc = [p \in Procs |-> NoLoc]
    /\ ret = NoRet
    /\ startRet = "none"
    /\ rawJobs = <<>>
    /\ jobStore = {}

InitStore == Idle /\ call = NoCall

\* a call of Store.UpsertRawJobs
StoreUpsertRaw ==
    /\ call = NoCall
    /\ \E b \in RawBatches :
         LET r == UpsertRawJobs(rawJobs, b) IN
         /\ rawJobs' = r.store
         /\ call' = [op |-> "UpsertRawJobs", batch |-> b,
                     Created |-> r.Created, NewJobs |-> r.NewJobs]
    /\ UNCHANGED <<ids, mode, notif, running, pc, startCtx, cycleCtx, tickCh, drained,
                   loc, ret, startRet, jobStore>>

\* a call of Store.UpdateRawJobStatus, for a row that is pending (the rows
\* the scheduler lists) or for an id no row has, which is an error
StoreUpdateStatus ==
    /\ call = NoCall
    /\ \E id \in SeqToSet(ListRawJobs(rawJobs, Len(rawJobs))) \cup {Len(rawJobs) + 1},
          u \in StatusUpdates :
         /\ rawJobs' = IF id <= Len(rawJobs) THEN UpdateRawJobStatus(rawJobs, id, u)
                       ELSE rawJobs
         /\ call' = [op |-> "UpdateRawJobStatus", id |-> id, err |-> id > Len(rawJobs)]
    /\ UNCHANGED <<ids, mode, notif, running, pc, startCtx, cycleCtx, tickCh, drained,
                   loc, ret, startRet, jobStore>>

\* a call of Store.UpsertJobs
StoreUpsertJobs ==
    /\ call = NoCall
    /\ \E b \in JobBatches :
         LET r == UpsertJobs(jobStore, b) IN
         /\ jobStore' = r.store
         /\ call' = [op |-> "UpsertJobs", batch |-> b,
                     Created |-> r.Created, NewJobs |-> r.NewJobs]
    /\ UNCHANGED <<ids, mode, notif, running, pc, startCtx, cycleCtx, tickCh, drained,
                   loc, ret, startRet, rawJobs>>

\* the caller has taken the result and may call again
CallDone ==
    /\ call # NoCall
    /\ call' = NoCall
    /\ UNCHANGED <<ids, mode, notif, running, pc, startCtx, cycleCtx, tickCh, drained,
                   loc, ret, startRet, rawJobs, jobStore>>

NextRawStore ==
    \/ StoreUpsertRaw
    \/ StoreUpdateStatus
    \/ CallDone

\* the raw job store under arbitrary upserts and status updates
SpecRawStore == InitStore /\ [][NextRawStore]_vars

NextJobStore ==
    \/ StoreUpsertJobs
    \/ CallDone

\* the final job store under arbitrary upserts
SpecJobStore == InitStore /\ [][NextJobStore]_vars

\* ------------------------------------------------- a crawl, page by page
\* What the listing can serve on a request: a failure, or a page of posts.
\* The posts cover a timestamp exactly at the cutoff, the same id twice on a
\* page, an unusable timestamp (in front of an old post and in front of a
\* fresh one), a post older than the cutoff (without remote tag, in front of
\* a fresh post), a post without remote tag and a post with an empty id.
FetchPages ==
    { Page(TRUE, <<>>),
      Page(FALSE, <<>>),
      Page(FALSE, <<Post(1, At(Cutoff), TRUE)>>),
      Page(FALSE, <<Post(1, At(Now), TRUE), Post(1, At(Cutoff), TRUE)>>),
      Page(FALSE, <<Post(2, At(Now), TRUE), Post(1, At(Now), TRUE)>>),
      Page(FALSE, <<Post(3, NoTime, TRUE), Post(2, At(Cutoff - 1), FALSE),
                    Post(3, At(Now), TRUE)>>),
      Page(FALSE, <<Post(3, At(Now), TRUE), Post(1, At(Cutoff - 1), TRUE)>>),
      Page(FALSE, <<Post(3, At(Now), FALSE), Post(EmptyId, At(Now), TRUE)>>),
      Page(FALSE, <<Post(2, NoTime, TRUE), Post(3, At(Now), TRUE)>>) }

\* Fetch is entered: cutoff computed, no job collected, nothing seen, the
\* first page of the first category is the next request
FetchStart ==
    /\ call = NoCall
    /\ call' = [op |-> "Fetch", state |-> "run", cat |-> 1, page |-> 1,
                jobs |-> <<>>, seen |-> {}, got |-> Page(FALSE, <<>>), at |-> <<0, 0>>]
    /\ UNCHANGED <<ids, mode, notif, running, pc, startCtx, cycleCtx, tickCh, drained,
                   loc, ret, startRet, rawJobs, jobStore>>

\* FetchPage asking for the next page of the category although the scan
\* reached the cutoff
FetchPageNoStop ==
    /\ call.op = "Fetch"
    /\ call.state = "run"
    /\ \E pg \in FetchPages :
         IF pg.fails
         THEN call' = [call EXCEPT !.state = "failed", !.jobs = FetchAbort(call.jobs).jobs,
                                   !.got = pg, !.at = <<call.cat, call.page>>]
         ELSE LET r    == ScanPosts(pg.posts, call.jobs, call.seen)
                  next == call.page = MaxPages
                  cat  == IF next THEN call.cat + 1 ELSE call.cat IN
              call' = [call EXCEPT !.state = IF cat > NumCats THEN "done" ELSE "run",
                                   !.cat = cat,
                                   !.page = IF next THEN 1 ELSE call.page + 1,
                                   !.jobs = r.jobs, !.seen = r.seen,
                                   !.got = pg, !.at = <<call.cat, call.page>>]
    /\ UNCHANGED <<ids, mode, notif, running, pc, startCtx, cycleCtx, tickCh, drained,
                   loc, ret, startRet, rawJobs, jobStore>>

\* FetchPage forgetting the ids it has seen when it moves to the next category
FetchPageSeenPerCategory ==
    /\ call.op = "Fetch"
    /\ call.state = "run"
    /\ \E pg \in FetchPages :
         IF pg.fails
         THEN call' = [call EXCEPT !.state = "failed", !.jobs = FetchAbort(call.jobs).jobs,
                                   !.got = pg, !.at = <<call.cat, call.page>>]
         ELSE LET r    == ScanPosts(pg.posts, call.jobs, call.seen)
                  next == r.stop \/ call.page = MaxPages
                  cat  == IF next THEN call.cat + 1 ELSE call.cat IN
              call' = [call EXCEPT !.state = IF cat > NumCats THEN "done" ELSE "run",
                                   !.cat = cat,
                                   !.page = IF next THEN 1 ELSE call.page + 1,
                                   !.jobs = r.jobs, !.seen = IF next THEN {} ELSE r.seen,
                                   !.got = pg, !.at = <<call.cat, call.page>>]
    /\ UNCHANGED <<ids, mode, notif, running, pc, startCtx, cycleCtx, tickCh, drained,
                   loc, ret, startRet, rawJobs, jobStore>>

\* one iteration of the page loop: the request of page call.page of category
\* call.cat, the loop over its posts, and the step to the next page, the
\* next category or the end of the crawl
FetchPage ==
    /\ call.op = "Fetch"
    /\ call.state = "run"
    /\ \E pg \in FetchPages :
         IF pg.fails
         THEN call' = [call EXCEPT !.state = "failed", !.jobs = FetchAbort(call.jobs).jobs,
                                   !.got = pg, !.at = <<call.cat, call.page>>]
         ELSE LET r    == ScanPosts(pg.posts, call.jobs, call.seen)
                  next == r.stop \/ call.page = MaxPages
                  cat  == IF next THEN call.cat + 1 ELSE call.cat IN
              call' = [call EXCEPT !.state = IF cat > NumCats THEN "done" ELSE "run",
                                   !.cat = cat,
                                   !.page = IF next THEN 1 ELSE call.page + 1,
                                   !.jobs = r.jobs, !.seen = r.seen,
                                   !.got = pg, !.at = <<call.cat, call.page>>]
    /\ UNCHANGED <<ids, mode, notif, running, pc, startCtx, cycleCtx, tickCh, drained,
                   loc, ret, startRet, rawJobs, jobStore>>

\* Fetch returns: the jobs, or nil and the error
FetchReturn ==
    /\ call.op = "Fetch"
    /\ call.state \in {"done", "failed"}
    /\ call' = NoCall
    /\ UNCHANGED <<ids, mode, notif, running, pc, startCtx, cycleCtx, tickCh, drained,
                   loc, ret, startRet, rawJobs, jobStore>>

NextFetch ==
    \/ FetchStart
    \/ FetchPage
    \/ FetchReturn

\* one crawl after another, each followed page by page
SpecFetch == InitStore /\ [][NextFetch]_vars

\* ------------------------------------------- the processor, called directly
\* keyword lists: none, blank keywords alone, one keyword, keywords with
\* surrounding blanks and capitals, a blank keyword in front of a keyword
ProcKeywords ==
    { <<>>,
      << <<" ">>, <<>> >>,
      << <<"g", "o">> >>,
      << <<" ", "G", "o", " ">>, <<"r", "s">> >>,
      << <<>>, <<"x">> >>,
      << <<"g", " ", "o">> >> }
\* candidate tag lists: none, two candidates, the same candidate in two
\* spellings, a blank candidate
ProcTagLists ==
    { <<>>,
      << <<"G", "o">>, <<" ", "R", "s">> >>,
      << <<"g", "o">>, <<"G", "O">> >>,
      << <<" ">> >> }
\* the texts of a raw job
ProcTitles ==
    { <<>>, <<"x">>, <<"G", "O">>, <<"a", "g", "o", "b">>, <<"g", " ", "O">>,
      <<" ", "R", "s", "\n">>, <<"g", "\n", "o">> }
\* what the completion service does: as in the cycles, and also a verdict
\* with the refusal and other tag lists with the acceptance
ProcReplies ==
    CycleReplies
    \cup { Reply(FALSE, Answer(TRUE, FALSE, "onsite", <<>>)),
           Reply(FALSE, Answer(TRUE, TRUE, "ok", <<>>)),
           Reply(FALSE, Answer(TRUE, TRUE, "ok", << <<" ", "g", "o">>, <<"r", "S", " ">>, <<" ">> >>)) }

\* a raw job with ID 1 is about to be handed to a processor
InitProc ==
    /\ Idle
    /\ \E kws \in ProcKeywords, tags \in ProcTagLists, t \in ProcTitles,
          ext \in {EmptyId, 1}, reply \in ProcReplies :
         call = [op |-> "args", cfg |-> Config(kws, tags),
                 raw |-> RawJob(RawEntry(ext, t, "")), reply |-> reply]

\* the call of Processor.Process
ProcProcess ==
    /\ call.op = "args"
    /\ call' = [op |-> "Process", cfg |-> call.cfg, raw |-> call.raw, reply |-> call.reply,
                result |-> Process(call.cfg, call.raw, 1, call.reply)]
    /\ UNCHANGED <<ids, mode, notif, running, pc, startCtx, cycleCtx, tickCh, drained,
                   loc, ret, startRet, rawJobs, jobStore>>

NextProc == ProcProcess

\* Processor.Process applied to one raw job
SpecProc == InitProc /\ [][NextProc]_vars

\* ------------------------------------------- the cron search, by minute
\* Schedules and the instants their next fire time is asked for: the step
\* wildcard at a quarter past, on a matching minute and one second before
\* one, the turn of the year, a schedule that binds all five fields, a list
\* with a blank part, the last day of February of a leap year, and the 30th
\* of February.
CronCases ==
    { <<<<"0", " ", "*", "/", "2", " ", "*", " ", "*", " ", "*">>,
        Date2024(6, 10, 1, 15, 0)>>,
      <<<<"0", " ", "*", "/", "2", " ", "*", " ", "*", " ", "*">>,
        Date2024(6, 10, 2, 0, 0)>>,
      <<<<"0", " ", "*", "/", "2", " ", "*", " ", "*", " ", "*">>,
        Date2024(6, 10, 1, 59, 59)>>,
      <<<<"*", "/", "1", "5", " ", "*", " ", "*", " ", "*", " ", "*">>,
        Date2024(6, 10, 1, 15, 30)>>,
      <<<<"*", "/", "1", "5", " ", "*", " ", "*", " ", "*", " ", "*">>,
        Date2024(12, 31, 23, 50, 0)>>,
      <<<<"3", "0", " ", "1", " ", "1", "0", " ", "6", " ", "1">>,
        Date2024(6, 10, 1, 15, 0)>>,
      <<<<"5", ",", ",", "7", " ", "3", " ", "*", " ", "*", " ", "2">>,
        Date2024(6, 10, 1, 15, 0)>>,
      <<<<"0", " ", "0", " ", "2", "9", " ", "2", " ", "*">>,
        Date2024(2, 28, 23, 59, 59)>>,
      <<<<"0", " ", "0", " ", "1", " ", "3", " ", "*">>,
        Date2024(2, 28, 23, 59, 59)>>,
      <<<<"0", " ", "0", " ", "3", "0", " ", "2", " ", "*">>,
        Date2024(6, 10, 1, 15, 0)>> }

\* cronSchedule.next is entered for a parsed schedule: no minute looked at
InitCron ==
    /\ Idle
    /\ \E c \in CronCases :
         /\ ParseCronSpec(c[1]).ok
         /\ call = [op |-> "next", state |-> "scan", spec |-> c[1],
                    cron |-> ParseCronSpec(c[1]).schedule[1], after |-> c[2],
                    i |-> 0, at |-> 0]

\* one iteration of the loop of next: the candidate matches and is returned,
\* or the next minute is looked at
CronScan ==
    /\ call.op = "next"
    /\ call.state = "scan"
    /\ call.i < ScanLimit
    /\ LET candidate == ScanStart(call.after) + call.i * 60 IN
       call' = IF Matches(call.cron, candidate)
               THEN [call EXCEPT !.state = "found", !.at = candidate]
               ELSE [call EXCEPT !.i = call.i + 1]
    /\ UNCHANGED <<ids, mode, notif, running, pc, startCtx, cycleCtx, tickCh, drained,
                   loc, ret, startRet, rawJobs, jobStore>>

\* the loop of next is through: no matching time found
CronNone ==
    /\ call.op = "next"
    /\ call.state = "scan"
    /\ call.i >= ScanLimit
    /\ call' = [call EXCEPT !.state = "none"]
    /\ UNCHANGED <<ids, mode, notif, running, pc, startCtx, cycleCtx, tickCh, drained,
                   loc, ret, startRet, rawJobs, jobStore>>

NextCron ==
    \/ CronScan
    \/ CronNone

\* cronSchedule.next, minute by minute
SpecCron == InitCron /\ [][NextCron]_vars

\* ------------------------------------------- the notifier, called directly
EmptyMap == [k \in {} |-> JNull]
\* The subscriptions the store may hold, in creation order: channels in
\* several spellings, tag maps with flags in every encoding.
Subscriptions ==
    { Subscription("a@x", <<"e", "m", "a", "i", "l">>, EmptyMap),
      Subscription("b@x", <<" ", "E", "m", "a", "i", "l", " ">>, "backend" :> JBool(TRUE)),
      Subscription("a@x", <<>>,
                   ("backend" :> JStr(<<" ", "T", "r", "u", "e">>)) @@ ("frontend" :> JBool(FALSE))),
      Subscription("b@x", <<"l", "o", "g">>, EmptyMap),
      Subscription("c@x", <<"L", "o", "g">>, ("frontend" :> JNum(1)) @@ ("backend" :> JArray)),
      Subscription("c@x", <<"e", "m", "a", "i", "l">>,
                   ("frontend" :> JStr(<<"y", "e", "s">>)) @@ ("backend" :> JNull)),
      Subscription("d@x", <<" ">>, ("frontend" :> JNum(2)) @@ ("backend" :> JNum(0))) }
SubscriptionLists == SeqsUpTo(Subscriptions, MaxSubs)
\* The new jobs of a cycle: distinct ids, tags as buildJob writes them.
NewJobs ==
    { NewJob(1, <<"a">>, "backend" :> JBool(TRUE)),
      NewJob(2, <<"b">>, "frontend" :> JBool(TRUE)),
      NewJob(3, <<"c">>, EmptyMap),
      NewJob(4, <<"d">>, ("backend" :> JBool(TRUE)) @@ ("frontend" :> JBool(TRUE))) }
NewJobLists ==
    {js \in SeqsUpTo(NewJobs, MaxBatch) : \A k, l \in 1..Len(js) : k # l => js[k] # js[l]}

\* A SubscriptionNotifier (store is set or nil, fallback is set or nil), the
\* subscriptions its store holds, and the jobs Notify is called with.  sent
\* lists the messages handed to the sender, fb the job lists handed to the
\* fallback.
InitNotify ==
    /\ Idle
    /\ \E st \in BOOLEAN, f \in BOOLEAN, js \in NewJobLists, ss \in SubscriptionLists :
         call = [op |-> "Notify", state |-> "start", store |-> st, fallback |-> f,
                 jobs |-> js, subs |-> ss, loaded |-> FALSE, i |-> 0,
                 sent |-> <<>>, fb |-> <<>>, err |-> "none"]

\* Notify up to the loop: the early return, ListSubscriptions (it fails or
\* returns the subscriptions), the fallback when there is no subscription
NotifyStart ==
    /\ call.op = "Notify" /\ call.state = "start"
    /\ IF Len(call.jobs) = 0 \/ ~call.store
       THEN call' = [call EXCEPT !.state = "done", !.err = "nil"]
       ELSE \E listed \in BOOLEAN :
              IF ~listed
              THEN call' = [call EXCEPT !.state = "done", !.err = "list subscriptions"]
              ELSE IF Len(call.subs) = 0
              THEN IF call.fallback
                   THEN \E ok \in BOOLEAN :
                          call' = [call EXCEPT !.state = "done", !.loaded = TRUE,
                                               !.fb = Append(@, call.jobs),
                                               !.err = IF ok THEN "nil" ELSE "fallback"]
                   ELSE call' = [call EXCEPT !.state = "done", !.loaded = TRUE,
                                             !.err = "nil"]
              ELSE call' = [call EXCEPT !.state = "loop", !.loaded = TRUE, !.i = 1]
    /\ UNCHANGED <<ids, mode, notif, running, pc, startCtx, cycleCtx, tickCh, drained,
                   loc, ret, startRet, rawJobs, jobStore>>

\* NotifySub going on with the next subscription after a failed send
NotifySubGoesOn ==
    /\ call.op = "Notify" /\ call.state = "loop" /\ call.i <= Len(call.subs)
    /\ LET sub     == call.subs[call.i]
           matches == FilterJobsBySubscription(sub, call.jobs)
       IN IF Len(matches) = 0 \/ ~IsEmailChannel(sub.Channel)
          THEN call' = [call EXCEPT !.i = @ + 1]
          ELSE \E ok \in BOOLEAN :
                 call' = [call EXCEPT !.sent = Append(@, EmailMessage(<<sub.Email>>, matches)),
                                      !.i = @ + 1,
                                      !.err = IF ok THEN @ ELSE "send"]
    /\ UNCHANGED <<ids, mode, notif, running, pc, startCtx, cycleCtx, tickCh, drained,
                   loc, ret, startRet, rawJobs, jobStore>>

\* One iteration of the loop over the subscriptions: the filter, the switch
\* on the channel, EmailNotifier.Notify with the sender succeeding or not
NotifySub ==
    /\ call.op = "Notify" /\ call.state = "loop" /\ call.i <= Len(call.subs)
    /\ LET sub     == call.subs[call.i]
           matches == FilterJobsBySubscription(sub, call.jobs)
       IN IF Len(matches) = 0 \/ ~IsEmailChannel(sub.Channel)
          THEN call' = [call EXCEPT !.i = @ + 1]
          ELSE \E ok \in BOOLEAN :
                 call' = [call EXCEPT !.sent = Append(@, EmailMessage(<<sub.Email>>, matches)),
                                      !.i = IF ok THEN @ + 1 ELSE @,
                                      !.state = IF ok THEN "loop" ELSE "done",
                                      !.err = IF ok THEN "none" ELSE "send"]
    /\ UNCHANGED <<ids, mode, notif, running, pc, startCtx, cycleCtx, tickCh, drained,
                   loc, ret, startRet, rawJobs, jobStore>>

\* NotifyReturn handing the jobs to the fallback when no message was sent
NotifyReturnFallbackUnsent ==
    /\ call.op = "Notify" /\ call.state = "loop" /\ call.i > Len(call.subs)
    /\ call' = [call EXCEPT !.state = "done", !.err = "nil",
                            !.fb = IF call.sent = <<>> /\ call.fallback
                                   THEN Append(@, call.jobs) ELSE @]
    /\ UNCHANGED <<ids, mode, notif, running, pc, startCtx, cycleCtx, tickCh, drained,
                   loc, ret, startRet, rawJobs, jobStore>>

\* the loop is over: Notify returns nil
NotifyReturn ==
    /\ call.op = "Notify" /\ call.state = "loop" /\ call.i > Len(call.subs)
    /\ call' = [call EXCEPT !.state = "done", !.err = "nil"]
    /\ UNCHANGED <<ids, mode, notif, running, pc, startCtx, cycleCtx, tickCh, drained,
                   loc, ret, startRet, rawJobs, jobStore>>

NextNotify ==
    \/ NotifyStart
    \/ NotifySub
    \/ NotifyReturn

\* one call of SubscriptionNotifier.Notify
SpecNotify == InitNotify /\ [][NextNotify]_vars

\* ------------------------------------------- the notifier, called by a cycle
\* A cycle of a manual caller in front of its call of Notify: UpsertJobs has
\* returned the new jobs js, all of them created by this cycle.  The
\* notifier is a SubscriptionNotifier as in InitNotify.
InitNotifyCycle ==
    /\ ids = 1..StoreKeys
    /\ mode = "interval"
    /\ notif = TRUE
    /\ running = TRUE
    /\ pc = [p \in Procs |-> IF p = Driver THEN "start"
                              ELSE IF p = 1 THEN "notify" ELSE "runOnce"]
    /\ startCtx = "live"
    /\ cycleCtx = [p \in Procs |-> IF p = 1 THEN "live" ELSE "none"]
    /\ tickCh = <<>>
    /\ drained = 0
    /\ ret = NoRet
    /\ startRet = "none"
    /\ rawJobs = <<>>
    /\ jobStore = {}
    /\ \E st \in BOOLEAN, f \in BOOLEAN, js \in NewJobLists \ {<<>>}, ss \in SubscriptionLists :
         /\ loc = [p \in Procs |->
                     IF p = 1
                     THEN [NoLoc EXCEPT !.processed = js,
                                        !.res = [Created |-> Len(js), NewJobs |-> js]]
                     ELSE NoLoc]
         /\ call = [op |-> "Notify", state |-> "start", store |-> st, fallback |-> f,
                    jobs |-> js, subs |-> ss, loaded |-> FALSE, i |-> 0,
                    sent |-> <<>>, fb |-> <<>>, err |-> "none"]

\* if err := s.notif.Notify(ctx, res.NewJobs); err != nil: Notify has
\* returned to runOnce
NotifyCalled ==
    /\ pc[1] = "notify"
    /\ call.op = "Notify" /\ call.state = "done"
    /\ Goto(1, "notified", [Called(loc[1], "Notify") EXCEPT
                               !.notified = Append(@, call.jobs),
                               !.notifErr = call.err # "nil"])
    /\ call' = [call EXCEPT !.state = "returned"]
    /\ UNCHANGED <<ids, mode, notif, startCtx, tickCh, drained, rawJobs, jobStore>>

NextNotifyCycle ==
    \/ NotifyStart
    \/ NotifySub
    \/ NotifyReturn
    \/ NotifyCalled
    \/ NotifyChecked(1)

\* the call of Notify inside a cycle, up to the return of the cycle
SpecNotifyCycle == InitNotifyCycle /\ [][NextNotifyCycle]_vars

\* ------------------------------------------- the final store, queried directly
\* The normalized tags buildJob writes: every tag it keeps is set to true.
StoredTagMaps ==
    { EmptyMap, "backend" :> JBool(TRUE), "frontend" :> JBool(TRUE),
      ("backend" :> JBool(TRUE)) @@ ("frontend" :> JBool(TRUE)) }
PublishedTimes == 1..2
\* the final stores: at most one row per id
FinalStores ==
    UNION {{ {StoredJob(id, f[id].at, f[id].tags) : id \in K} :
               f \in [K -> [at : PublishedTimes, tags : StoredTagMaps]] } :
           K \in SUBSET (1..StoreKeys)}
\* the queries of the HTTP layer: limit and offset of either sign, the
\* requested tags trimmed, not empty and distinct
Queries ==
    {JobQueryOptions(l, o, t) :
        l \in (0 - 1)..(StoreKeys + 1), o \in (0 - 1)..StoreKeys,
        t \in {<<>>, <<"backend">>, <<"frontend">>, <<"backend", "frontend">>, <<"go">>}}

InitQuery ==
    /\ ids = 1..StoreKeys
    /\ mode = "interval"
    /\ notif = FALSE
    /\ running = FALSE
    /\ pc = [p \in Procs |-> IF p = Driver THEN "start" ELSE "runOnce"]
    /\ startCtx = "live"
    /\ cycleCtx = [p \in Procs |-> "none"]
    /\ tickCh = <<>>
    /\ drained = 0
    /\ loc = [p \in Procs |-> NoLoc]
    /\ ret = NoRet
    /\ startRet = "none"
    /\ rawJobs = <<>>
    /\ jobStore \in FinalStores
    /\ call = NoCall

\* a call of Store.ListJobs
QueryList ==
    /\ call = NoCall
    /\ \E opts \in Queries :
         \E jobs \in ListJobs(jobStore, opts) :
           call' = [op |-> "ListJobs", opts |-> opts, jobs |-> jobs, total |-> 0]
    /\ UNCHANGED <<ids, mode, notif, running, pc, startCtx, cycleCtx, tickCh, drained,
                   loc, ret, startRet, rawJobs, jobStore>>

\* a call of Store.CountJobs
QueryCount ==
    /\ call = NoCall
    /\ \E opts \in Queries :
         call' = [op |-> "CountJobs", opts |-> opts, jobs |-> <<>>,
                  total |-> CountJobs(jobStore, opts)]
    /\ UNCHANGED <<ids, mode, notif, running, pc, startCtx, cycleCtx, tickCh, drained,
                   loc, ret, startRet, rawJobs, jobStore>>

NextQuery ==
    \/ QueryList
    \/ QueryCount
    \/ CallDone

\* the final job store under arbitrary queries
SpecQuery == InitQuery /\ [][NextQuery]_vars

\* ------------------------------------------- the scheduler, from its config
\* The interval strings a configuration may hold.
IntervalStrings ==
    { <<"9", "0", "m">>,
      <<"1", "h", "3", "0", "m">>,
      <<" ", "3", "0", "m", " ">>,
      <<"5", "m", "s">>,
      <<"+", "2", "s">>,
      <<"0", "s">>,
      <<"-", "5", "m">>,
      <<"0">>,
      <<>>,
      <<" ", " ">>,
      <<"5">>,
      <<"a", "b", "c">>,
      <<"0", " ", "*", "/", "2", " ", "*", " ", "*", " ", "*">>,
      <<"*", "/", "1", "5", " ", "9", ",", "1", "8", " ", "1", " ", "1", ",", "6", " ", "0">>,
      <<" ", "5", "9", " ", "2", "3", " ", "3", "1", " ", "1", "2", " ", "6", " ">>,
      <<"1", ",", ",", "2", " ", "*", " ", "*", " ", "*", " ", "*">>,
      <<"*", " ", "*", " ", "*", " ", "*">>,
      <<"*", " ", "*", " ", "*", " ", "*", " ", "*", " ", "*">>,
      <<"6", "0", " ", "*", " ", "*", " ", "*", " ", "*">>,
      <<"0", " ", "2", "4", " ", "*", " ", "*", " ", "*">>,
      <<"0", " ", "0", " ", "0", " ", "*", " ", "*">>,
      <<"0", " ", "0", " ", "*", " ", "1", "3", " ", "*">>,
      <<"0", " ", "0", " ", "*", " ", "*", " ", "7">>,
      <<"0", " ", "*", "/", "0", " ", "*", " ", "*", " ", "*">>,
      <<"1", "-", "5", " ", "*", " ", "*", " ", "*", " ", "*">>,
      <<"0", " ", "x", " ", "*", " ", "*", " ", "*">>,
      <<"0", " ", ",", " ", "*", " ", "*", " ", "*">> }

\* A scheduler is about to be built from cfg.Interval = call.value.
InitSchedule ==
    /\ ids = 1..SchedIds
    /\ mode = "unset"
    /\ notif = FALSE
    /\ running = FALSE
    /\ pc = [p \in Procs |-> IF p = Driver THEN "start" ELSE "runOnce"]
    /\ startCtx = "live"
    /\ cycleCtx = [p \in Procs |-> "none"]
    /\ tickCh = <<>>
    /\ drained = 0
    /\ loc = [p \in Procs |-> NoLoc]
    /\ ret = NoRet
    /\ startRet = "none"
    /\ rawJobs = <<>>
    /\ jobStore = {}
    /\ \E v \in IntervalStrings :
         call = [op |-> "NewScheduler", state |-> "config", value |-> v,
                 interval |-> 0, cronSpec |-> <<>>, cron |-> <<>>]

\* NewScheduler: interval, cronSpec and cron are set from parseSchedule;
\* the mode tells whether s.cron is set
NewScheduler ==
    /\ call.op = "NewScheduler" /\ call.state = "config"
    /\ LET r == ParseSchedule(call.value) IN
       /\ call' = [call EXCEPT !.state = "built", !.interval = r.interval,
                               !.cronSpec = r.spec, !.cron = r.cron]
       /\ mode' = IF r.cron # <<>> THEN "cron" ELSE "interval"
    /\ UNCHANGED <<ids, notif, running, pc, startCtx, cycleCtx, tickCh, drained,
                   loc, ret, startRet, rawJobs, jobStore>>

\* the scheduler is built and may be started
Built == call.op = "NewScheduler" /\ call.state = "built"

NextSchedule ==
    \/ NewScheduler
    \/ Built /\ Start
    \/ Built /\ Tick
    \/ Built /\ SelectTick
    \/ Built /\ SelectDone
    \/ Built /\ CronNext
    \/ Built /\ TimerFire
    \/ Built /\ Cancel

\* a scheduler built from its configuration and started, up to the first
\* trigger of its driver
SpecSchedule == InitSchedule /\ [][NextSchedule]_vars

\* ------------------------------------------------- runServer, the server
\* runServer supervises sched.Start and srv.ListenAndServe in one errgroup:
\* startCtx is the group's context, which is cancelled when the context
\* given to runServer is cancelled and when a task of the group returns an
\* error.  call holds the rest: outer (the context given to runServer), srv
\* (the HTTP server), sched (what the scheduler task returned), main (where
\* runServer is), first (the error the group keeps) and result (what
\* runServer returned).
InitServer ==
    /\ ids = 1..SchedIds
    /\ mode \in {"interval", "cron"}
    /\ notif = TRUE
    /\ running = FALSE
    /\ pc = [p \in Procs |-> IF p = Driver THEN "start" ELSE "runOnce"]
    /\ startCtx = "live"
    /\ cycleCtx = [p \in Procs |-> "none"]
    /\ tickCh = <<>>
    /\ drained = 0
    /\ loc = [p \in Procs |-> NoLoc]
    /\ ret = NoRet
    /\ startRet = "none"
    /\ rawJobs = <<>>
    /\ jobStore = {}
    /\ call = [op |-> "runServer", outer |-> "live", srv |-> "serving",
               sched |-> "running", main |-> "wait", first |-> "nil",
               result |-> "none"]

\* the group's context is cancelled; the cancellation reaches the context of
\* the cycle the driver is in
GroupCancel ==
    /\ startCtx' = "canceled"
    /\ cycleCtx' = [cycleCtx EXCEPT ![Driver] = IF @ = "live" THEN "canceled" ELSE @]

\* the group keeps the first error a task returned
FirstError(err) == IF call.first = "nil" THEN err ELSE call.first

\* the context given to runServer is cancelled (SIGINT / SIGTERM)
OuterCancel ==
    /\ call.op = "runServer" /\ call.outer = "live"
    /\ call' = [call EXCEPT !.outer = "canceled"]
    /\ GroupCancel
    /\ UNCHANGED <<ids, mode, notif, running, pc, tickCh, drained, loc, ret,
                   startRet, rawJobs, jobStore>>

\* the scheduler task: sched.Start(ctx) returned; an error other than
\* context.Canceled is wrapped and returned to the group, which cancels its
\* context.  The error of a cycle that ran under a cancelled context may or
\* may not wrap context.Canceled
SchedReturn ==
    /\ call.op = "runServer" /\ call.sched = "running"
    /\ pc[Driver] = "stopped"
    /\ \E wraps \in BOOLEAN :
         LET canceled == \/ startRet = "context canceled"
                         \/ /\ wraps
                            /\ startCtx = "canceled"
                            /\ startRet # "compute next cron time"
         IN IF canceled
            THEN /\ call' = [call EXCEPT !.sched = "nil"]
                 /\ UNCHANGED <<startCtx, cycleCtx>>
            ELSE /\ call' = [call EXCEPT !.sched = "error",
                                         !.first = FirstError("start scheduler")]
                 /\ GroupCancel
    /\ UNCHANGED <<ids, mode, notif, running, pc, tickCh, drained, loc, ret,
                   startRet, rawJobs, jobStore>>

\* the server task: srv.ListenAndServe() returned an error other than
\* http.ErrServerClosed (the listener failed)
ListenFail ==
    /\ call.op = "runServer" /\ call.srv = "serving"
    /\ call' = [call EXCEPT !.srv = "failed",
                            !.first = FirstError("listen and serve")]
    /\ GroupCancel
    /\ UNCHANGED <<ids, mode, notif, running, pc, tickCh, drained, loc, ret,
                   startRet, rawJobs, jobStore>>

\* <-ctx.Done(); srv.Shutdown(shutdownCtx): the listeners are closed at once
\* and ListenAndServe returns http.ErrServerClosed
ServerShutdown ==
    /\ call.op = "runServer" /\ call.main = "wait"
    /\ startCtx = "canceled"
    /\ call' = [call EXCEPT !.main = "shutdown",
                            !.srv = IF @ = "serving" THEN "closing" ELSE @]
    /\ UNCHANGED <<ids, mode, notif, running, pc, startCtx, cycleCtx, tickCh, drained,
                   loc, ret, startRet, rawJobs, jobStore>>

\* Shutdown returned nil: the connections went idle within shutdownTimeout
ShutdownDone ==
    /\ call.op = "runServer" /\ call.main = "shutdown"
    /\ call' = [call EXCEPT !.main = "wait group",
                            !.srv = IF @ = "closing" THEN "closed" ELSE @]
    /\ UNCHANGED <<ids, mode, notif, running, pc, startCtx, cycleCtx, tickCh, drained,
                   loc, ret, startRet, rawJobs, jobStore>>

\* shutdownCtx expired first: Shutdown returns its error and runServer
\* returns it without waiting for the group
ShutdownTimeout ==
    /\ call.op = "runServer" /\ call.main = "shutdown"
    /\ call.srv = "closing"
    /\ call' = [call EXCEPT !.main = "returned", !.result = "shutdown server"]
    /\ UNCHANGED <<ids, mode, notif, running, pc, startCtx, cycleCtx, tickCh, drained,
                   loc, ret, startRet, rawJobs, jobStore>>

\* g.Wait() returned, both tasks being over: runServer returns the group's
\* error
ServerReturn ==
    /\ call.op = "runServer" /\ call.main = "wait group"
    /\ call.sched # "running"
    /\ call' = [call EXCEPT !.main = "returned", !.result = call.first]
    /\ UNCHANGED <<ids, mode, notif, running, pc, startCtx, cycleCtx, tickCh, drained,
                   loc, ret, startRet, rawJobs, jobStore>>

\* the process lives as long as runServer has not returned
Serving == call.op = "runServer" /\ call.main # "returned"

NextServer ==
    \/ OuterCancel
    \/ SchedReturn
    \/ ListenFail
    \/ ServerShutdown
    \/ ShutdownDone
    \/ ShutdownTimeout
    \/ ServerReturn
    \/ Serving /\ Start
    \/ Serving /\ Tick
    \/ Serving /\ SelectTick
    \/ Serving /\ SelectDone
    \/ Serving /\ DrainTick
    \/ Serving /\ DrainDone
    \/ Serving /\ CronNext
    \/ Serving /\ TimerFire
    \/ Serving /\ RunOnceEnter(Driver)
    \/ Serving /\ DoFetch(Driver)
    \/ Serving /\ FetchFailed(Driver)
    \/ Serving /\ DoUpsertRaw(Driver)
    \/ Serving /\ DoList(Driver)
    \/ Serving /\ DoProcess(Driver)
    \/ Serving /\ DoUpdate(Driver)
    \/ Serving /\ DoUpsertJobs(Driver)
    \/ Serving /\ DoNotify(Driver)
    \/ Serving /\ NotifyChecked(Driver)
    \/ Serving /\ Timeout(Driver)

\* the server command: the scheduler's driver and the HTTP server under
\* runServer
SpecServer == InitServer /\ [][NextServer]_vars

\* ------------------------------------------- startCron, against the clock
\* The cron driver with the time it reads: call holds the clock (now, in
\* seconds, moving in steps of ClockStep up to `until`), the search of next
\* (state, after, i, at, as in the search followed by minute), the instant
\* the timer is armed for (fire) and the instant of the fire before it (last,
\* -1 when there was none).
\* The runs: a schedule for every second minute, over MaxTicks steps of the
\* clock; and, at a standing clock, a schedule that never matches, a yearly
\* schedule asked on its own minute (the next fire is 525600 minutes later)
\* and the same across the 29th of February (527040 minutes later).
CronRuns ==
    { [spec |-> <<"*", "/", "2", " ", "*", " ", "*", " ", "*", " ", "*">>,
       now |-> Date2024(6, 10, 1, 15, 0), ticks |-> MaxTicks],
      [spec |-> <<"0", " ", "0", " ", "3", "0", " ", "2", " ", "*">>,
       now |-> Date2024(6, 10, 1, 15, 0), ticks |-> 0],
      [spec |-> <<"1", "5", " ", "1", " ", "1", "0", " ", "6", " ", "*">>,
       now |-> Date2024(6, 10, 1, 15, 0), ticks |-> 0],
      [spec |-> <<"0", " ", "0", " ", "1", " ", "1", " ", "*">>,
       now |-> Date2024(1, 1, 0, 0, 0), ticks |-> 0] }

\* NewScheduler has parsed the schedule; Start has not been called
InitStartCron ==
    /\ ids = 1..SchedIds
    /\ mode = "cron"
    /\ notif = TRUE
    /\ running = FALSE
    /\ pc = [p \in Procs |-> IF p = Driver THEN "start" ELSE "runOnce"]
    /\ startCtx = "live"
    /\ cycleCtx = [p \in Procs |-> "none"]
    /\ tickCh = <<>>
    /\ drained = 0
    /\ loc = [p \in Procs |-> NoLoc]
    /\ ret = NoRet
    /\ startRet = "none"
    /\ rawJobs = <<>>
    /\ jobStore = {}
    /\ \E r \in CronRuns :
         /\ ParseCronSpec(r.spec).ok
         /\ call = [op |-> "next", state |-> "idle", spec |-> r.spec,
                    cron |-> ParseCronSpec(r.spec).schedule[1], after |-> 0,
                    i |-> 0, at |-> 0, now |-> r.now,
                    until |-> r.now + r.ticks * ClockStep,
                    fire |-> 0 - 1, last |-> 0 - 1]

\* time passes; the search of next takes none
ClockTick ==
    /\ call.op = "next" /\ call.state # "scan"
    /\ call.now + ClockStep <= call.until
    /\ call' = [call EXCEPT !.now = call.now + ClockStep]
    /\ UNCHANGED <<ids, mode, notif, running, pc, startCtx, cycleCtx, tickCh, drained,
                   loc, ret, startRet, rawJobs, jobStore>>

\* CronCall that asks next for the fire after the previous one
CronCallFromLastFire ==
    /\ pc[Driver] = "next"
    /\ call.op = "next" /\ call.state = "idle"
    /\ call' = [call EXCEPT !.state = "scan", !.i = 0,
                            !.after = IF call.fire < 0 THEN call.now ELSE call.fire]
    /\ UNCHANGED <<ids, mode, notif, running, pc, startCtx, cycleCtx, tickCh, drained,
                   loc, ret, startRet, rawJobs, jobStore>>

\* startCron: s.cron.next(s.now()) is entered
CronCall ==
    /\ pc[Driver] = "next"
    /\ call.op = "next" /\ call.state = "idle"
    /\ call' = [call EXCEPT !.state = "scan", !.after = call.now, !.i = 0]
    /\ UNCHANGED <<ids, mode, notif, running, pc, startCtx, cycleCtx, tickCh, drained,
                   loc, ret, startRet, rawJobs, jobStore>>

\* startCron: next returned an error, which startCron returns
CronFail ==
    /\ pc[Driver] = "next"
    /\ call.op = "next" /\ call.state = "none"
    /\ call' = [call EXCEPT !.state = "failed"]
    /\ pc' = [pc EXCEPT ![Driver] = "stopped"]
    /\ startRet' = "compute next cron time"
    /\ UNCHANGED <<ids, mode, notif, running, startCtx, cycleCtx, tickCh, drained,
                   loc, ret, rawJobs, jobStore>>

\* startCron: next returned a time; the timer is armed for it (for now when
\* the time has passed: wait < 0 becomes 0)
CronArm ==
    /\ pc[Driver] = "next"
    /\ call.op = "next" /\ call.state = "found"
    /\ call' = [call EXCEPT !.state = "armed", !.last = call.fire, !.fire = call.at]
    /\ pc' = [pc EXCEPT ![Driver] = "timer"]
    /\ UNCHANGED <<ids, mode, notif, running, startCtx, cycleCtx, tickCh, drained,
                   loc, ret, startRet, rawJobs, jobStore>>

\* startCron: case <-timer.C, which is ready once the wait is over
TimerExpire ==
    /\ pc[Driver] = "timer"
    /\ call.op = "next" /\ call.state = "armed"
    /\ call.now >= call.fire
    /\ call' = [call EXCEPT !.state = "idle"]
    /\ pc' = [pc EXCEPT ![Driver] = "runOnce"]
    /\ UNCHANGED <<ids, mode, notif, running, startCtx, cycleCtx, tickCh, drained,
                   loc, ret, startRet, rawJobs, jobStore>>

NextStartCron ==
    \/ Start
    \/ ClockTick
    \/ CronCall
    \/ CronScan
    \/ CronNone
    \/ CronFail
    \/ CronArm
    \/ TimerExpire
    \/ RunOnceEnter(Driver)
    \/ DoFetch(Driver)
    \/ FetchFailed(Driver)
    \/ DoUpsertRaw(Driver)
    \/ DoList(Driver)
    \/ DoProcess(Driver)
    \/ DoUpdate(Driver)
    \/ DoUpsertJobs(Driver)
    \/ DoNotify(Driver)
    \/ NotifyChecked(Driver)
    \/ Timeout(Driver)

\* the cron driver alone, its context live, with the clock it reads
SpecStartCron == InitStartCron /\ [][NextStartCron]_vars

\* a call the cycle of p is waiting for returns and the cycle goes on
CycleStep(p) ==
    \/ DoFetch(p)
    \/ FetchFailed(p)
    \/ DoUpsertRaw(p)
    \/ DoList(p)
    \/ DoProcess(p)
    \/ DoUpdate(p)
    \/ DoUpsertJobs(p)
    \/ DoNotify(p)
    \/ NotifyChecked(p)

\* one caller of RunOnce, the site serving up to SchedIds posts
InitLive ==
    /\ ids = 1..SchedIds
    /\ mode = "interval"
    /\ notif \in BOOLEAN
    /\ running = FALSE
    /\ pc = [p \in Procs |-> IF p = Driver THEN "start" ELSE "runOnce"]
    /\ startCtx = "live"
    /\ cycleCtx = [p \in Procs |-> "none"]
    /\ tickCh = <<>>
    /\ drained = 0
    /\ loc = [p \in Procs |-> NoLoc]
    /\ ret = NoRet
    /\ startRet = "none"
    /\ rawJobs = <<>>
    /\ jobStore = {}
    /\ call = NoCall

\* Cycle after cycle of one caller, every call of a cycle returning in the
\* end: the collaborators honour the context of the cycle, whose deadline
\* bounds them
SpecLive == InitLive /\ [][NextCycle]_vars /\ WF_vars(CycleStep(1))

\* ------------------------------------------ cycles, and who was notified
\* The cycles of one caller with a record of the notifier's calls across
\* them: call.passed holds the ids of the jobs handed to Notify so far,
\* call.again those handed to it a second time, call.failed those of a call
\* of Notify that returned an error.
InitNotified ==
    /\ ids = 1..NumIds
    /\ mode = "interval"
    /\ notif = TRUE
    /\ running = FALSE
    /\ pc = [p \in Procs |-> IF p = Driver THEN "start" ELSE "runOnce"]
    /\ startCtx = "live"
    /\ cycleCtx = [p \in Procs |-> "none"]
    /\ tickCh = <<>>
    /\ drained = 0
    /\ loc = [p \in Procs |-> NoLoc]
    /\ ret = NoRet
    /\ startRet = "none"
    /\ rawJobs = <<>>
    /\ jobStore = {}
    /\ call = [op |-> "notified", passed |-> {}, again |-> {}, failed |-> {}]

\* err := s.notif.Notify(ctx, res.NewJobs), recorded
DoNotifyRecorded(p) ==
    /\ pc[p] = "notify"
    /\ call.op = "notified"
    /\ LET new == {loc[p].res.NewJobs[k].ID : k \in 1..Len(loc[p].res.NewJobs)} IN
       \E ok \in BOOLEAN :
         /\ Goto(p, "notified", [Called(loc[p], "Notify") EXCEPT
                                    !.notified = Append(@, loc[p].res.NewJobs),
                                    !.notifErr = ~ok])
         /\ call' = [call EXCEPT !.passed = @ \cup new,
                                 !.again = @ \cup (call.passed \cap new),
                                 !.failed = IF ok THEN @ ELSE @ \cup new]
    /\ UNCHANGED <<ids, mode, notif, startCtx, tickCh, drained, rawJobs, jobStore>>

NextNotified ==
    \/ RunOnceEnter(1)
    \/ DoFetch(1)
    \/ FetchFailed(1)
    \/ DoUpsertRaw(1)
    \/ DoList(1)
    \/ DoProcess(1)
    \/ DoUpdate(1)
    \/ DoUpsertJobs(1)
    \/ DoNotifyRecorded(1)
    \/ NotifyChecked(1)
    \/ Timeout(1)

SpecNotified == InitNotified /\ [][NextNotified]_vars

\* the step just taken was no failure: the crawl did not fail and the cycle
\* did not return an error
Succeeds == pc'[1] # "fetchFailed" /\ ret'.err \in {"nil", "none"}

\* the classification of a raw job that returns a result
Classify == DoProcess(1) /\ Succeeds

\* the steps of cycles none of which fails
NextBacklog ==
    \/ RunOnceEnter(1)
    \/ DoFetch(1) /\ Succeeds
    \/ DoUpsertRaw(1) /\ Succeeds
    \/ DoList(1) /\ Succeeds
    \/ Classify
    \/ DoUpdate(1) /\ Succeeds
    \/ DoUpsertJobs(1) /\ Succeeds
    \/ DoNotify(1) /\ ~loc'[1].notifErr
    \/ NotifyChecked(1) /\ Succeeds

\* The raw jobs earlier cycles left behind: cycles that upserted what they
\* crawled and were aborted before they classified anything (a failing
\* ListRawJobs, a hard error of the processor) leave their rows pending, so
\* that the backlog can grow beyond the batch of one cycle.
Backlogs ==
    {UpsertRawJobs(<<>>, [k \in 1..n |-> Candidate(k)]).store : n \in 0..NumIds}

InitBacklog ==
    /\ ids = 1..NumIds
    /\ mode = "interval"
    /\ notif \in BOOLEAN
    /\ running = FALSE
    /\ pc = [p \in Procs |-> IF p = Driver THEN "start" ELSE "runOnce"]
    /\ startCtx = "live"
    /\ cycleCtx = [p \in Procs |-> "none"]
    /\ tickCh = <<>>
    /\ drained = 0
    /\ loc = [p \in Procs |-> NoLoc]
    /\ ret = NoRet
    /\ startRet = "none"
    /\ rawJobs \in Backlogs
    /\ jobStore = {}
    /\ call = NoCall

\* The call of the processor returns: the scheduler does not stay in front
\* of a raw job for ever.  In the cycles none of which fails Classify is
\* enabled exactly when the cycle is at the call (ClassifyEnabledAtCall), and
\* leaving the call is a Classify step, so this is WF_vars(Classify) written
\* on the control state.
ClassifyReturns == []<>(pc[1] # "process")

\* One caller of RunOnce whose cycles keep being triggered (a cycle starts
\* whenever none is executing), whose calls return in the end, and none of
\* whose cycles fails
SpecBacklog ==
    /\ InitBacklog
    /\ [][NextBacklog]_vars
    /\ WF_vars(RunOnceEnter(1))
    /\ WF_vars(DoFetch(1) /\ Succeeds)
    /\ WF_vars(DoUpsertRaw(1) /\ Succeeds)
    /\ WF_vars(DoList(1) /\ Succeeds)
    /\ ClassifyReturns
    /\ WF_vars(DoUpdate(1) /\ Succeeds)
    /\ WF_vars(DoUpsertJobs(1) /\ Succeeds)
    /\ WF_vars(DoNotify(1) /\ ~loc'[1].notifErr)
    /\ WF_vars(NotifyChecked(1) /\ Succeeds)

\* the call of the processor can always return a result
ClassifyEnabledAtCall == pc[1] = "process" <=> ENABLED <<Classify>>_vars

\* ------------------------------------------------------------------ types
TypeOK ==
    /\ mode \in {"interval", "cron"}
    /\ notif \in BOOLEAN
    /\ running \in BOOLEAN
    /\ \A p \in Procs : pc[p] \in CyclePcs \cup {"start", "select", "runOnce",
                           "drain", "next", "timer", "stopped"}
    /\ startCtx \in {"live", "canceled"}
    /\ \A p \in Procs : cycleCtx[p] \in {"none", "live", "deadline", "canceled"}
    /\ Len(tickCh) <= TickCap
    /\ drained \in 0..TickCap
    /\ ret.by \in Procs \cup {0 - 1}
    /\ JobKeys(jobStore) \subseteq ids
    /\ Cardinality(JobKeys(jobStore)) = Cardinality(jobStore)
    /\ \A i \in 1..Len(rawJobs) : rawJobs[i].status \in {"pending", "processed", "rejected"}

\* ----------------------------------------------------------------- claims
Count(c, op) == Cardinality({i \in 1..Len(c) : c[i] = op})
NoCycle == \A p \in Procs : ~InCycle(p)
\* p, waiting at the entry of runOnce, takes a step: it leaves the entry or
\* it is handed a result there
Moved(p) == pc'[p] # pc[p] \/ (ret' # ret /\ ret'.by = p)
\* the driver's call of runOnce returns in this step
DriverReturns == pc[Driver] \in CyclePcs \cup {"runOnce"} /\ ~(pc'[Driver] \in CyclePcs \cup {"runOnce"})

\* C1: at every instant at most one process is inside a cycle (between the
\* Swap that set running and the deferred Store that clears it), whatever
\* the interleaving of driver triggers and manual RunOnce calls.
SingleFlight == Cardinality({p \in Procs : InCycle(p)}) <= 1

\* the driver's trigger arrives while a manual cycle is executing
SingleFlightWitness == InCycle(1) /\ pc[1] = "update" /\ pc[Driver] = "runOnce"

\* C2: a trigger that finds a cycle executing returns (0, nil) at once and
\* changes nothing but its caller's position and result: no store, no
\* local, no context, no channel and no other process is touched, so
\* nothing is left behind that could start a cycle for it later.
DroppedTrigger ==
    [][\A p \in Procs :
         (pc[p] = "runOnce" /\ running /\ Moved(p))
         => /\ ret' = [by |-> p, at |-> "swap", created |-> 0, err |-> "nil"]
            /\ pc'[p] = (IF p = Driver THEN LoopOn ELSE "runOnce")
            /\ \A q \in Procs \ {p} : pc'[q] = pc[q]
            /\ UNCHANGED <<running, startCtx, cycleCtx, tickCh, loc, startRet,
                           rawJobs, jobStore>>]_vars

\* a manual trigger was dropped while a cycle of the driver is executing
DroppedTriggerWitness ==
    /\ pc[1] = "runOnce"
    /\ ret = [by |-> 1, at |-> "swap", created |-> 0, err |-> "nil"]
    /\ pc[Driver] = "process"

\* C3: the flag is set only while a cycle is executing, however the last
\* cycle ended, and a manual RunOnce that arrives when no cycle is executing
\* enters a cycle (its next step is the call of Fetch).
FlagReleased ==
    [][/\ NoCycle => ~running
       /\ NoCycle' => ~running'
       /\ \A p \in Manuals :
            (pc[p] = "runOnce" /\ NoCycle /\ Moved(p)) => pc'[p] = "fetch"]_vars

\* a manual cycle starts after a cycle of the driver ended with a
\* classification hard error
FlagReleasedWitness ==
    /\ pc[Driver] = "stopped"
    /\ startRet = "process raw job"
    /\ pc[1] = "fetch"

\* C4: in the calls of one cycle, UpsertRawJobs has returned before any
\* Process; UpsertJobs is called at most once, only when every pending raw
\* job of the batch has been classified and updated, and no classification
\* follows it; Notify comes last, right after the UpsertJobs that returned.
StageOrder ==
    \A p \in Procs :
      LET c == loc[p].calls
          n == Len(loc[p].pending)
      IN /\ pc[p] \in {"upsertJobs", "notify", "notified"}
              => /\ loc[p].idx = n + 1
                 /\ Count(c, "Process") = n
                 /\ Count(c, "UpdateRawJobStatus") = n
         /\ Count(c, "UpsertJobs") <= 1
         /\ \A i \in 1..Len(c) :
              /\ c[i] = "Process" => \E j \in 1..(i - 1) : c[j] = "UpsertRawJobs"
              /\ c[i] = "UpsertJobs"
                   => \A j \in (i + 1)..Len(c) :
                        c[j] \notin {"UpsertRawJobs", "Process", "UpdateRawJobStatus"}
              /\ c[i] = "Notify" => i > 1 /\ c[i - 1] = "UpsertJobs" /\ i = Len(c)

\* a cycle that classified a batch of two and went through all four stages
StageOrderWitness ==
    loc[1].calls = <<"Fetch", "UpsertRawJobs", "ListRawJobs", "Process",
                     "UpdateRawJobStatus", "Process", "UpdateRawJobStatus",
                     "UpsertJobs", "Notify">>

\* C5: in both modes, when the cycle the driver started returns an error the
\* driver leaves its loop, Start returns that very error, and the driver
\* never moves again (no retry, no further cycle).
DriverStopsOnError ==
    [][/\ DriverReturns => ret'.by = Driver
       /\ (DriverReturns /\ ret'.err # "nil")
            => pc'[Driver] = "stopped" /\ startRet' = ret'.err
       /\ pc[Driver] = "stopped"
            => pc'[Driver] = "stopped" /\ startRet' = startRet]_vars

\* the cron driver has stopped on a failed final upsert
DriverStopsOnErrorWitness ==
    mode = "cron" /\ pc[Driver] = "stopped" /\ startRet = "upsert jobs"

\* C6 as stated: cancelling the context given to Start never cancels a cycle
\* the driver started.
CycleIgnoresOuterCancel == InCycle(Driver) => cycleCtx[Driver] # "canceled"

\* C6 amended: the cycle's context is derived from the context of its
\* caller.  A cycle of the driver is cancelled together with the context
\* given to Start (unless its own deadline passed first), and only then; a
\* manual cycle is never cancelled by it.
CycleCtxDerived ==
    /\ (InCycle(Driver) /\ startCtx = "canceled")
          => cycleCtx[Driver] \in {"canceled", "deadline"}
    /\ cycleCtx[Driver] = "canceled" => startCtx = "canceled"
    /\ \A p \in Manuals : InCycle(p) => cycleCtx[p] \in {"live", "deadline"}

\* the context of a driver cycle is cancelled in the middle of the batch
CycleCtxDerivedWitness ==
    pc[Driver] = "update" /\ cycleCtx[Driver] = "canceled" /\ loc[Driver].processed = <<>>

\* C7: when the driver is back at its select, or enters runOnce for the
\* tick it received there, no tick that arrived during its last cycle is
\* left in the channel: such ticks never start a cycle.
OverlappingTicksDiscarded ==
    (\E i \in 1..Len(tickCh) : tickCh[i])
        => pc[Driver] \in CyclePcs \cup {"drain", "stopped"}

\* a full channel of ticks arrived during one cycle and the drain loop has
\* discarded all of them
OverlappingTicksDiscardedWitness ==
    pc[Driver] = "drain" /\ drained = TickCap /\ tickCh = <<>>

\* C8: in a cycle Notify is called at most once, only with a notifier
\* configured and a final upsert that reported at least one new job, and
\* with exactly the jobs that upsert reported as new.
NotifyOnlyNewJobs ==
    \A p \in Procs :
      LET l == loc[p] IN
      /\ Len(l.notified) <= 1
      /\ Count(l.calls, "Notify") = Len(l.notified)
      /\ pc[p] = "notify" => l.notified = <<>>
      /\ (l.notified # <<>> \/ pc[p] = "notify")
            => /\ notif
               /\ Len(l.res.NewJobs) > 0
               /\ l.res.Created = Len(l.res.NewJobs)
               /\ Count(l.calls, "UpsertJobs") = 1
      /\ l.notified # <<>> => l.notified[1] = l.res.NewJobs

\* the notifier was handed the two new jobs of a batch, once
NotifyOnlyNewJobsWitness ==
    /\ pc[1] = "notified"
    /\ Len(loc[1].notified) = 1
    /\ Len(loc[1].notified[1]) = 2

\* C9: when Notify fails, RunOnce returns the created count of the final
\* upsert with the notification error, and the jobs that upsert created stay
\* in the final store.
NotifyErrorKeepsCount ==
    [][\A p \in Procs :
         (pc[p] = "notified" /\ loc[p].notifErr /\ pc'[p] # "notified")
         => /\ ret' = [by |-> p, at |-> "notify",
                        created |-> Len(loc[p].res.NewJobs), err |-> "notify"]
            /\ ret'.created > 0
            /\ SeqToSet(loc[p].res.NewJobs) \subseteq jobStore'
            /\ jobStore' = jobStore]_vars

\* RunOnce returned two created jobs with the notification error
NotifyErrorKeepsCountWitness ==
    /\ pc[1] = "runOnce"
    /\ ret = [by |-> 1, at |-> "notify", created |-> 2, err |-> "notify"]
    /\ Cardinality(jobStore) >= 2

\* C10: a failed crawl hands back an error and no candidate, and the cycle
\* then returns (0, error) having made no other call than Fetch and having
\* written neither store.
FetchErrorAbortsCycle ==
    [][\A p \in Procs :
         pc[p] = "fetchFailed"
         => /\ loc[p].jobs = <<>>
            /\ loc[p].calls = <<"Fetch">>
            /\ pc'[p] # "fetchFailed"
                 => /\ ret' = [by |-> p, at |-> "fetch", created |-> 0, err |-> "fetch jobs"]
                    /\ ~InCycle(p)'
                    /\ UNCHANGED <<rawJobs, jobStore>>]_vars

\* a crawl failed after an earlier cycle had stored raw and final jobs
FetchErrorAbortsCycleWitness ==
    /\ pc[1] = "runOnce"
    /\ ret = [by |-> 1, at |-> "fetch", created |-> 0, err |-> "fetch jobs"]
    /\ rawJobs # <<>>
    /\ jobStore # {}

\* C11: a classification that fails with a hard error is not a rejection:
\* the step that leaves Process either hands on a proper outcome, or it ends
\* the cycle with the classification error, the raw job still pending, no
\* store written, and neither UpsertJobs nor Notify called in that cycle.
HardErrorAborts ==
    [][\A p \in Procs :
         (pc[p] = "process" /\ pc'[p] # "process")
         => IF pc'[p] = "update"
            THEN /\ ~loc'[p].result.err
                 /\ loc'[p].result.Outcome \in {"accepted", "rejected"}
            ELSE /\ ret' = [by |-> p, at |-> "process", created |-> 0,
                            err |-> "process raw job"]
                 /\ ~InCycle(p)'
                 /\ rawJobs[loc[p].pending[loc[p].idx]].status = "pending"
                 /\ Count(loc[p].calls, "Process") = loc[p].idx - 1
                 /\ Count(loc[p].calls, "UpsertJobs") = 0
                 /\ Count(loc[p].calls, "Notify") = 0
                 /\ UNCHANGED <<rawJobs, jobStore>>]_vars

\* the second raw job of a batch failed hard after the first was accepted:
\* it is still pending and a third one was never classified
HardErrorAbortsWitness ==
    /\ pc[1] = "runOnce"
    /\ ret.at = "process"
    /\ Len(rawJobs) >= 2
    /\ rawJobs[1].status = "processed"
    /\ rawJobs[2].status = "pending"

\* C12: every raw job classified without hard error gets one status update
\* (the updates of a cycle are as many as the classifications that went
\* before), and the update that succeeds writes that raw job only: processed
\* with an empty reason for an accepted outcome, rejected with the
\* classifier's reason otherwise, and the classifier's trace when it has one.
OneStatusUpdate ==
    [][\A p \in Procs :
         /\ InCycle(p)
              => /\ Count(loc[p].calls, "UpdateRawJobStatus") = loc[p].idx - 1
                 /\ Count(loc[p].calls, "Process")
                      = IF pc[p] = "update" THEN loc[p].idx ELSE loc[p].idx - 1
         /\ (pc[p] = "update" /\ pc'[p] # "update")
              => LET r   == loc[p].result
                     id  == loc[p].pending[loc[p].idx]
                     acc == r.Outcome = "accepted"
                 IN IF ret' # ret /\ ret'.at = "update"
                    THEN rawJobs' = rawJobs /\ ~InCycle(p)'
                    ELSE /\ Len(rawJobs') = Len(rawJobs)
                         /\ \A j \in 1..Len(rawJobs) : j # id => rawJobs'[j] = rawJobs[j]
                         /\ rawJobs[id].status = "pending"
                         /\ rawJobs'[id].ext = rawJobs[id].ext
                         /\ rawJobs'[id].status = (IF acc THEN "processed" ELSE "rejected")
                         /\ rawJobs'[id].reason = (IF acc THEN "" ELSE r.Reason)
                         /\ ~acc => r.Reason # ""
                         /\ r.Trace # <<>> => rawJobs'[id].llm = r.Trace]_vars

\* a batch of two was classified and updated: one accepted, one rejected by
\* the completion service
OneStatusUpdateWitness ==
    /\ pc[1] = "upsertJobs"
    /\ Len(rawJobs) >= 2
    /\ rawJobs[1].status = "processed" /\ rawJobs[1].reason = ""
    /\ rawJobs[2].status = "rejected" /\ rawJobs[2].reason = "llm rejected"
    /\ rawJobs[2].llm # <<>>

\* the last entry of a batch of raw jobs that carries the key ext
LastRawFor(batch, ext) ==
    batch[CHOOSE k \in 1..Len(batch) :
            /\ batch[k].ext = ext
            /\ \A m \in (k + 1)..Len(batch) : batch[m].ext # ext]

\* a step of the model is a call of the named store operation
StoreCall(op) == call = NoCall /\ call'.op = op

\* C13: re-upserting a raw job whose (source, external id) key is already
\* stored overwrites its volatile fields (here the title, with the text of
\* the last entry of the batch that carries the key) and never its status,
\* reason or trace: a processed or rejected row is never reset to pending,
\* and rows the batch does not name are untouched.
UpsertKeepsStatus ==
    [][StoreCall("UpsertRawJobs")
       => /\ Len(rawJobs') >= Len(rawJobs)
          /\ \A i \in 1..Len(rawJobs) :
               LET inBatch == \E k \in 1..Len(call'.batch) :
                                  call'.batch[k].ext = rawJobs[i].ext IN
               /\ rawJobs'[i].ext = rawJobs[i].ext
               /\ rawJobs'[i].status = rawJobs[i].status
               /\ rawJobs'[i].reason = rawJobs[i].reason
               /\ rawJobs'[i].llm = rawJobs[i].llm
               /\ rawJobs'[i].title = IF inBatch
                                      THEN LastRawFor(call'.batch, rawJobs[i].ext).title
                                      ELSE rawJobs[i].title]_vars

\* a batch naming a processed and a rejected row has been upserted again, with
\* another title for the rejected row, which still carries reason and trace
UpsertKeepsStatusWitness ==
    /\ call.op = "UpsertRawJobs"
    /\ call.Created = 0
    /\ Len(call.batch) = 2
    /\ Len(rawJobs) = 2
    /\ call.batch[1] = RawEntry(1, <<"b">>, "")
    /\ call.batch[2] = RawEntry(2, <<"a">>, "")
    /\ rawJobs[1] = [ext |-> 1, title |-> <<"b">>, status |-> "rejected",
                     reason |-> "llm rejected", llm |-> <<"trace">>]
    /\ rawJobs[2].status = "processed"

\* C14: UpsertRawJobs reports as created exactly the distinct keys of the
\* batch that were not stored before the call, a key repeated in the batch
\* once, and returns one new row per such key; submitting the same batch
\* again reports 0 and an empty list and changes no row; the store never
\* holds two rows with the same key.
RawCreatedIsNewKeys ==
    [][StoreCall("UpsertRawJobs")
       => LET b      == call'.batch
              fresh  == {b[k].ext : k \in 1..Len(b)} \ RawKeys(rawJobs)
              again  == UpsertRawJobs(rawJobs', b) IN
          /\ call'.Created = Cardinality(fresh)
          /\ Len(call'.NewJobs) = call'.Created
          /\ {call'.NewJobs[k].ext : k \in 1..Len(call'.NewJobs)} = fresh
          /\ \A k \in 1..Len(call'.NewJobs) : call'.NewJobs[k].status = "pending"
          /\ RawKeys(rawJobs') = RawKeys(rawJobs) \cup {b[k].ext : k \in 1..Len(b)}
          /\ Cardinality(RawKeys(rawJobs')) = Len(rawJobs')
          /\ again.Created = 0
          /\ again.NewJobs = <<>>
          /\ \A i \in 1..Len(rawJobs') :
               /\ again.store[i].status = rawJobs'[i].status
               /\ again.store[i].reason = rawJobs'[i].reason
               /\ again.store[i].llm = rawJobs'[i].llm
          /\ Len(again.store) = Len(rawJobs')]_vars

\* a batch that names one new key twice and one stored key has been upserted:
\* one row was created
RawCreatedIsNewKeysWitness ==
    /\ call.op = "UpsertRawJobs"
    /\ Len(call.batch) = 2
    /\ call.batch[1].ext = call.batch[2].ext
    /\ call.batch[1].title # call.batch[2].title
    /\ call.Created = 1
    /\ Len(call.NewJobs) = 1
    /\ Len(rawJobs) = 2
    /\ rawJobs[2].ext = call.batch[1].ext

\* the last entry of a batch of jobs that carries the id
LastJobFor(batch, id) ==
    batch[CHOOSE k \in 1..Len(batch) :
            /\ batch[k].ID = id
            /\ \A m \in (k + 1)..Len(batch) : batch[m].ID # id]

\* C15: UpsertJobs reports as new exactly the ids of the batch that were not
\* stored before the call, each once, and returns one job of the batch per
\* such id; an id that was stored has its fields replaced by the batch's,
\* adds no row and contributes nothing to the count; jobs the batch does not
\* name are untouched and the store holds one job per id.
JobsNewIsNewIds ==
    [][StoreCall("UpsertJobs")
       => LET b     == call'.batch
              keys  == {b[k].ID : k \in 1..Len(b)}
              fresh == keys \ JobKeys(jobStore) IN
          /\ call'.Created = Cardinality(fresh)
          /\ Len(call'.NewJobs) = call'.Created
          /\ {call'.NewJobs[k].ID : k \in 1..Len(call'.NewJobs)} = fresh
          /\ \A k \in 1..Len(call'.NewJobs) :
               \E m \in 1..Len(b) : call'.NewJobs[k] = b[m]
          /\ JobKeys(jobStore') = JobKeys(jobStore) \cup keys
          /\ Cardinality(jobStore') = Cardinality(JobKeys(jobStore'))
          /\ Cardinality(jobStore') = Cardinality(jobStore) + call'.Created
          /\ \A j \in jobStore : j.ID \notin keys => j \in jobStore'
          /\ \A id \in keys : LastJobFor(b, id) \in jobStore']_vars

\* a stored job has been upserted again with another title: nothing is new,
\* the store still holds two jobs, and the job carries the new title
JobsNewIsNewIdsWitness ==
    /\ call.op = "UpsertJobs"
    /\ call.batch = <<Job(1, <<"b">>, {})>>
    /\ call.Created = 0
    /\ call.NewJobs = <<>>
    /\ jobStore = {Job(1, <<"b">>, {}), Job(2, <<"a">>, {})}

\* a step of the model is one request of a crawl
PageStep == call.op = "Fetch" /\ call'.op = "Fetch"

\* the positions of the posts of a page whose published time is strictly
\* before the cutoff
OlderIdx(pg) == {k \in 1..Len(pg.posts) :
                   pg.posts[k].ts # NoTime /\ pg.posts[k].ts[1] < Cutoff}

\* the positions of the posts of a page in front of its first post older
\* than the cutoff that have a usable timestamp and a remote tag
CandidateIdx(pg) ==
    {k \in 1..Len(pg.posts) :
       /\ \A m \in OlderIdx(pg) : k < m
       /\ pg.posts[k].ts # NoTime
       /\ pg.posts[k].remote}

\* C16: no candidate collected by a crawl has a published time strictly
\* before the cutoff, and a category is left at the first post older than the
\* cutoff: the pages are requested in order, and after a page that holds such
\* a post the next request is for the next category (or the crawl ends), so
\* no later page of that category is requested.
NoOldCandidate ==
    [][PageStep
       => /\ call'.at = <<call.cat, call.page>>
          /\ call'.got.fails => call'.state = "failed" /\ call'.jobs = <<>>
          /\ ~call'.got.fails
             => /\ call'.cat \in {call.cat, call.cat + 1}
                /\ call'.cat = call.cat => call'.page = call.page + 1
          /\ \A k \in 1..Len(call'.jobs) : call'.jobs[k].PublishedAt >= Cutoff
          /\ (~call'.got.fails /\ OlderIdx(call'.got) # {})
             => /\ call'.cat = call.cat + 1
                /\ call'.page = 1
                /\ Len(call'.jobs) - Len(call.jobs) <= Cardinality(CandidateIdx(call'.got))]_vars

\* a post exactly at the cutoff was collected in the first category; the
\* first page of the second category held a post older than the cutoff behind
\* a fresh one, and the crawl ended without asking for its second page
NoOldCandidateWitness ==
    /\ call.op = "Fetch"
    /\ call.at = <<NumCats, 1>>
    /\ call.state = "done"
    /\ MaxPages > 1
    /\ call.got = Page(FALSE, <<Post(3, At(Now), TRUE), Post(1, At(Cutoff - 1), TRUE)>>)
    /\ call.jobs = <<FetchedJob(Post(1, At(Cutoff), TRUE)), FetchedJob(Post(3, At(Now), TRUE))>>

\* C17 as stated: of the candidates of one crawl that share a normalized id,
\* exactly one is in the output.
OneSurvivorPerId ==
    call.op = "Fetch"
    => \A i, j \in 1..Len(call.jobs) : call.jobs[i].ID = call.jobs[j].ID => i = j

\* the candidates a page adds to the output jobs: of the posts in front of
\* its first old post that have a usable timestamp and a remote tag, those
\* with an empty id, and the first of each other id that is not in jobs yet
PageAdds(pg, jobs) ==
    LET keep == {k \in CandidateIdx(pg) :
                   \/ pg.posts[k].id = EmptyId
                   \/ /\ \A j \in 1..Len(jobs) : jobs[j].ID # pg.posts[k].id
                      /\ \A m \in CandidateIdx(pg) :
                           m < k => pg.posts[m].id # pg.posts[k].id}
        idx  == SelectSeq([k \in 1..Len(pg.posts) |-> k], LAMBDA k : k \in keep) IN
    [k \in 1..Len(idx) |-> FetchedJob(pg.posts[idx[k]])]

\* C17: of the candidates of one crawl that share a non-empty normalized id,
\* across pages and across categories, exactly one is in the output and it is
\* the first one met in traversal order: a page never changes what was
\* collected before it and adds, in page order, the first post of each id
\* that is not collected yet; candidates with an empty id are all kept.
FirstSeenWins ==
    [][(PageStep /\ ~call'.got.fails)
       => /\ call'.jobs = call.jobs \o PageAdds(call'.got, call.jobs)
          /\ \A i, j \in 1..Len(call'.jobs) :
               (call'.jobs[i].ID = call'.jobs[j].ID /\ call'.jobs[i].ID # EmptyId)
               => i = j
          /\ \A k \in CandidateIdx(call'.got) :
               \E j \in 1..Len(call'.jobs) : call'.jobs[j].ID = call'.got.posts[k].id]_vars

\* post 1 was met twice on the first page, with two timestamps, and once
\* more in the second category: the output holds the first one alone
FirstSeenWinsWitness ==
    /\ call.op = "Fetch"
    /\ call.at = <<2, 1>>
    /\ call.got = Page(FALSE, <<Post(1, At(Cutoff), TRUE)>>)
    /\ call.jobs = <<FetchedJob(Post(1, At(Now), TRUE))>>

\* sub occurs in s, letter case aside
InText(s, sub) ==
    \E i \in 0..(Len(s) - Len(sub)) :
       \A k \in 1..Len(sub) : LowerCh(s[i + k]) = LowerCh(sub[k])

\* the keywords a configuration asks for: its entries without surrounding
\* white space, blank entries left out
Configured(cfg) ==
    {TrimSpace(cfg.Keywords[i]) : i \in 1..Len(cfg.Keywords)} \ {<<>>}

\* C18: with a non-empty keyword list, a raw job whose title, summary and
\* content together contain none of the configured keywords, letter case
\* aside, is rejected with a non-empty reason and the completion service is
\* not called; with an empty keyword list the completion service is called
\* for every raw job.
KeywordFilter ==
    call.op = "Process"
    => LET text == call.raw.title \o <<"\n">> \o <<"\n">>
           r    == call.result IN
       /\ (Len(call.cfg.Keywords) > 0
            /\ \A kw \in Configured(call.cfg) : ~InText(text, kw))
          => /\ ~r.err
             /\ r.Outcome = "rejected"
             /\ r.Reason # ""
             /\ r.Job = <<>>
             /\ r.Sent = <<>>
       /\ Len(call.cfg.Keywords) = 0
          => /\ Len(r.Sent) = 1
             /\ r.Reason # "missing required keywords"

\* a text that holds neither of two keywords was rejected without a call of
\* the completion service
KeywordFilterWitness ==
    /\ call.op = "Process"
    /\ call.cfg.Keywords = << <<" ", "G", "o", " ">>, <<"r", "s">> >>
    /\ call.raw.title = <<"g", " ", "O">>
    /\ call.reply = Reply(FALSE, Answer(TRUE, TRUE, "ok", <<>>))
    /\ call.result.Outcome = "rejected"
    /\ call.result.Reason = "missing required keywords"
    /\ call.result.Sent = <<>>

\* process p takes the step that hands it the result of Process without
\* hard error, for the raw job with ID id
Classified(p) == pc[p] = "process" /\ pc'[p] = "update"

\* process p takes the step that writes the status of a raw job
StatusWritten(p) ==
    /\ pc[p] = "update" /\ pc'[p] # "update"
    /\ ~(ret' # ret /\ ret'.at = "update")

\* the trace of a classification: the prompt built for the raw job and the
\* text the completion service answered with
TraceOf(raw, reply) ==
    <<[prompt |-> BuildPrompt(CycleCfg, Text(raw)), llm_response |-> reply.text]>>

\* C19 as stated: every outcome Process returns, accepted or rejected, comes
\* with a trace that holds the exact prompt and the raw answer text, and the
\* scheduler records that trace on the raw job.
TraceEveryOutcome ==
    [][\A p \in Procs :
         /\ Classified(p)
            => LET id == loc[p].pending[loc[p].idx] IN
               \E reply \in CycleReplies :
                  /\ loc'[p].result = Process(CycleCfg, rawJobs[id], id, reply)
                  /\ loc'[p].result.Trace = TraceOf(rawJobs[id], reply)
         /\ StatusWritten(p)
            => LET id == loc[p].pending[loc[p].idx] IN
               /\ loc[p].result.Trace # <<>>
               /\ rawJobs'[id].llm = loc[p].result.Trace]_vars

\* C19: every outcome Process returns after it called the completion
\* service, accepted or rejected by the answer, comes with a trace that holds
\* the exact prompt that was sent and the raw answer text, and the scheduler
\* records that trace on the raw job; a rejection by the keyword filter comes
\* without a trace, and the scheduler then leaves the trace column of the raw
\* job as it is.
TraceAfterCompletion ==
    [][\A p \in Procs :
         /\ Classified(p)
            => LET id == loc[p].pending[loc[p].idx]
                   r  == loc'[p].result IN
               /\ \E reply \in CycleReplies : r = Process(CycleCfg, rawJobs[id], id, reply)
               /\ \A reply \in CycleReplies :
                    r = Process(CycleCfg, rawJobs[id], id, reply)
                    => IF r.Sent = <<>>
                       THEN r.Trace = <<>> /\ r.Reason = "missing required keywords"
                       ELSE /\ r.Trace = TraceOf(rawJobs[id], reply)
                            /\ r.Sent = <<r.Trace[1].prompt>>
         /\ StatusWritten(p)
            => LET id == loc[p].pending[loc[p].idx]
                   r  == loc[p].result IN
               rawJobs'[id].llm = IF r.Sent = <<>> THEN rawJobs[id].llm ELSE r.Trace]_vars

\* one raw job was rejected by the keyword filter and carries no trace, the
\* next one was rejected by the completion service and carries its trace
TraceAfterCompletionWitness ==
    /\ pc[1] = "list"
    /\ Len(rawJobs) = 3
    /\ rawJobs[2].status = "rejected"
    /\ rawJobs[2].reason = "missing required keywords"
    /\ rawJobs[2].llm = <<>>
    /\ rawJobs[3].status = "rejected"
    /\ rawJobs[3].llm = TraceOf(rawJobs[3], Reply(FALSE, Answer(TRUE, FALSE, "", <<>>)))

\* two tags are the same, letter case aside
SameTag(a, b) == Len(a) = Len(b) /\ \A k \in 1..Len(a) : LowerCh(a[k]) = LowerCh(b[k])

\* the candidate tags of a configuration, without surrounding white space
Whitelist(cfg) ==
    {TrimSpace(cfg.TagCandidates[i]) : i \in 1..Len(cfg.TagCandidates)} \ {<<>>}

\* C20: the normalized tags of every accepted job are candidate tags: each
\* is a candidate, in the candidate's spelling, that a tag of the answer
\* matches letter case aside, every answer tag that matches a candidate is
\* kept under such a spelling and every other answer tag is dropped; so every
\* job in the final store has candidate tags alone.
TagsWhitelisted ==
    [][/\ \A j \in jobStore' : j.NormalizedTags \subseteq Whitelist(CycleCfg)
       /\ \A p \in Procs :
            (Classified(p) /\ loc'[p].result.Outcome = "accepted")
            => LET id == loc[p].pending[loc[p].idx]
                   r  == loc'[p].result IN
               \A reply \in CycleReplies :
                  r = Process(CycleCfg, rawJobs[id], id, reply)
                  => LET answer == {TrimSpace(reply.text.Tags[k]) :
                                      k \in 1..Len(reply.text.Tags)}
                         kept   == r.Job[1].NormalizedTags IN
                     /\ kept \subseteq Whitelist(CycleCfg)
                     /\ \A c \in kept : \E t \in answer : SameTag(t, c)
                     /\ \A t \in answer :
                          (\E c \in Whitelist(CycleCfg) : SameTag(t, c))
                          => \E c \in kept : SameTag(t, c)
                     /\ \A t \in answer :
                          (\A c \in Whitelist(CycleCfg) : ~SameTag(t, c))
                          => t \notin kept]_vars

\* a job accepted with the answer tags "gO" and "x" is in the final store
\* with the one tag "Go"
TagsWhitelistedWitness ==
    /\ pc[1] = "notify"
    /\ Len(loc[1].res.NewJobs) = 1
    /\ loc[1].res.NewJobs[1] \in jobStore
    /\ loc[1].res.NewJobs[1].NormalizedTags = {<<"G", "o">>}

\* minute, hour, day of month, month and day of week of the instant t all
\* belong to the value sets of the schedule
Accepts(c, t) ==
    /\ (t \div 60) % 60 \in c.minutes
    /\ (t \div 3600) % 24 \in c.hours
    /\ ClockDate(t).day \in c.doms
    /\ ClockDate(t).month \in c.months
    /\ ClockWeekday(t) \in c.dows

\* C21: the time next returns for a parsed five-field schedule is a whole
\* minute strictly after t that the schedule accepts, and no whole minute
\* between t and it is accepted; for "0 */2 * * *" and 2024-06-10T01:15:00Z
\* it is 2024-06-10T02:00:00Z.
NextIsEarliest ==
    (call.op = "next" /\ call.state = "found")
    => /\ call.at % 60 = 0
       /\ call.at > call.after
       /\ Accepts(call.cron, call.at)
       /\ \A m \in ((call.after \div 60) + 1)..((call.at \div 60) - 1) :
            ~Accepts(call.cron, m * 60)
       /\ (call.spec = <<"0", " ", "*", "/", "2", " ", "*", " ", "*", " ", "*">>
           /\ call.after = Date2024(6, 10, 1, 15, 0))
          => call.at = Date2024(6, 10, 2, 0, 0)

\* the fire time of "0 */2 * * *" after 2024-06-10T01:15:00Z was found, 45
\* minutes looked at
NextIsEarliestWitness ==
    /\ call.op = "next"
    /\ call.state = "found"
    /\ call.spec = <<"0", " ", "*", "/", "2", " ", "*", " ", "*", " ", "*">>
    /\ call.after = Date2024(6, 10, 1, 15, 0)
    /\ call.at = Date2024(6, 10, 2, 0, 0)
    /\ call.i = 44

\* the subscription the loop of Notify is at, and the step that handles it
AtSub == call.op = "Notify" /\ call.state = "loop" /\ call.i <= Len(call.subs)
\* a value that counts as a set flag: the boolean true, the text "true" in
\* any case, a number other than zero, any other value that is not null
Flag(v) ==
    \/ v.kind = "bool" /\ v.b
    \/ v.kind = "string" /\ TrimSpace(ToLower(v.s)) = <<"t", "r", "u", "e">>
    \/ v.kind = "number" /\ v.n # 0
    \/ v.kind = "array"
\* the new jobs that hold, set, every tag the subscription has set
Wanted(sub, jobs) ==
    LET Holds(job) == \A k \in DOMAIN sub.Tags :
                        Flag(sub.Tags[k]) => /\ k \in DOMAIN job.NormalizedTags
                                             /\ Flag(job.NormalizedTags[k])
    IN SelectSeq(jobs, Holds)
\* the channel delivers: trimmed and in lower case it is "email" or empty
Delivers(sub) == ToLower(TrimSpace(sub.Channel)) \in {<<"e", "m", "a", "i", "l">>, <<>>}

DeliversWantedJobs ==
    [][(AtSub /\ Delivers(call.subs[call.i]))
       => LET sub    == call.subs[call.i]
              wanted == Wanted(sub, call.jobs)
          IN /\ DOMAIN sub.Tags = {} => wanted = call.jobs
             /\ call'.sent = IF wanted = <<>> THEN call.sent
                             ELSE Append(call.sent,
                                         [To |-> <<sub.Email>>,
                                          Body |-> [k \in 1..Len(wanted) |-> wanted[k].Title]])]_vars

DeliversWantedJobsWitness ==
    /\ call.op = "Notify" /\ call.state = "done" /\ call.err = "nil"
    /\ Len(call.jobs) = 2 /\ Len(call.subs) = 2
    /\ Len(call.sent) = 1
    /\ Len(call.sent[1].Body) = 1
    /\ call.sent[1].To = <<call.subs[1].Email>>
    /\ Delivers(call.subs[2]) /\ Wanted(call.subs[2], call.jobs) = <<>>

Tagged(rows, tags) ==
    {j \in rows : \A k \in 1..Len(tags) :
                    /\ tags[k] \in DOMAIN j.NormalizedTags
                    /\ j.NormalizedTags[tags[k]] = JBool(TRUE)}
Max(a, b) == IF a > b THEN a ELSE b
Min(a, b) == IF a < b THEN a ELSE b

\* C25: ListJobs returns, and CountJobs counts, exactly the stored jobs that
\* hold every requested tag (all stored jobs when no tag is requested), and
\* the count is the length of every list ListJobs can return for the same
\* tags without limit and offset.
TagFilterIsConjunction ==
    /\ call.op = "CountJobs"
       => /\ call.total = Cardinality(Tagged(jobStore, call.opts.Tags))
          /\ call.opts.Tags = <<>> => call.total = Cardinality(jobStore)
          /\ \A l \in ListJobs(jobStore, JobQueryOptions(0, 0, call.opts.Tags)) :
               Len(l) = call.total
    /\ call.op = "ListJobs"
       => /\ SeqToSet(call.jobs) \subseteq Tagged(jobStore, call.opts.Tags)
          /\ (call.opts.Limit <= 0 /\ call.opts.Offset <= 0)
             => SeqToSet(call.jobs) = Tagged(jobStore, call.opts.Tags)

TagFilterIsConjunctionWitness ==
    /\ call.op = "ListJobs"
    /\ call.opts = JobQueryOptions(0, 0, <<"backend", "frontend">>)
    /\ Cardinality(jobStore) = 2
    /\ Len(call.jobs) = 1

\* C26: ListJobs returns the matching jobs by published time, latest first,
\* without the first offset of them (none for a negative offset) and cut to
\* limit of them when limit is positive; with two jobs stored, limit 1 and
\* offset 1 give the older job alone.
ListJobsPaged ==
    call.op = "ListJobs"
    => LET all  == Tagged(jobStore, call.opts.Tags)
           skip == Max(call.opts.Offset, 0)
           left == Max(Cardinality(all) - skip, 0)
       IN /\ \A i, j \in 1..Len(call.jobs) :
               i < j => /\ call.jobs[i].PublishedAt >= call.jobs[j].PublishedAt
                        /\ call.jobs[i] # call.jobs[j]
          /\ Len(call.jobs) = IF call.opts.Limit > 0 THEN Min(call.opts.Limit, left) ELSE left
          \* the jobs left out before the list are skip jobs that are not older,
          \* the ones left out after it are not newer
          /\ \E before \in SUBSET (all \ SeqToSet(call.jobs)) :
               /\ Cardinality(before) = Min(skip, Cardinality(all))
               /\ \A b \in before, k \in 1..Len(call.jobs) :
                    b.PublishedAt >= call.jobs[k].PublishedAt
               /\ \A a \in all \ (before \cup SeqToSet(call.jobs)), k \in 1..Len(call.jobs) :
                    a.PublishedAt <= call.jobs[k].PublishedAt
          /\ (Cardinality(jobStore) = 2 /\ call.opts = JobQueryOptions(1, 1, <<>>))
             => /\ Len(call.jobs) = 1
                /\ \A j \in jobStore : j.PublishedAt >= call.jobs[1].PublishedAt

ListJobsPagedWitness ==
    /\ call.op = "ListJobs"
    /\ call.opts = JobQueryOptions(1, 1, <<>>)
    /\ Cardinality(jobStore) = 2
    /\ \E j \in jobStore : j.PublishedAt > call.jobs[1].PublishedAt

\* the rows of the raw store that are pending
PendingRows == {i \in 1..Len(rawJobs) : rawJobs[i].status = "pending"}

\* C28: a cycle lists at most batchSize raw jobs to classify: the pending
\* rows created first (rows are created in the order of their ids), in that
\* order, whether this cycle's crawl created them or an earlier one did; it
\* classifies and updates them in the order of the list and no others.
BatchOldestPending ==
    [][/\ (pc[1] = "list" /\ pc'[1] \in {"process", "upsertJobs"})
            => LET b == loc'[1].pending IN
               /\ Len(b) = Min(BatchSize, Cardinality(PendingRows))
               /\ SeqToSet(b) \subseteq PendingRows
               /\ \A i, j \in 1..Len(b) : i < j => b[i] < b[j]
               /\ \A x \in PendingRows \ SeqToSet(b), k \in 1..Len(b) : b[k] < x
       /\ (pc[1] = "list" /\ pc'[1] \notin {"list", "process"}) => rawJobs' = rawJobs
       /\ InCycle(1) => /\ Count(loc[1].calls, "Process") <= BatchSize
                        /\ Count(loc[1].calls, "Process") <= Len(loc[1].pending)
                        /\ loc'[1].pending = loc[1].pending \/ pc[1] = "list" \/ ~InCycle(1)'
       /\ StatusWritten(1)
            => LET id == loc[1].pending[Count(loc[1].calls, "Process")] IN
               /\ rawJobs[id].status = "pending" /\ rawJobs'[id].status # "pending"
               /\ \A j \in 1..Len(rawJobs) : j # id => rawJobs'[j] = rawJobs[j]]_vars

\* the crawl of this cycle returned nothing and the cycle classifies the two
\* oldest rows left pending by earlier cycles, a third one staying behind
BatchOldestPendingWitness ==
    /\ pc[1] = "update"
    /\ loc[1].jobs = <<>>
    /\ Count(loc[1].calls, "Fetch") = 1
    /\ Len(loc[1].pending) = BatchSize /\ loc[1].idx = BatchSize
    /\ Cardinality(PendingRows) > 1

\* the positions of the posts of a page that have no usable timestamp
NoTimeIdx(pg) == {k \in 1..Len(pg.posts) : pg.posts[k].ts = NoTime}
\* the page without those posts
Timed(pg) ==
    Page(pg.fails, SelectSeq(pg.posts, LAMBDA p : p.ts # NoTime))

\* C29: a page that holds posts without usable timestamp is crawled as if
\* those posts were not on it: the crawl does not fail on it, it collects
\* what the other posts of the page give, none of those posts is collected,
\* and it leaves the category only if another post is older than the cutoff
\* or the page is the last one; a later page then is requested.
UntimedPostSkipped ==
    [][(PageStep /\ ~call'.got.fails /\ NoTimeIdx(call'.got) # {})
       => LET pg == call'.got IN
          /\ call'.state # "failed"
          /\ call'.jobs = call.jobs \o PageAdds(Timed(pg), call.jobs)
          /\ Len(call'.jobs) - Len(call.jobs)
               <= Len(pg.posts) - Cardinality(NoTimeIdx(pg))
          /\ (OlderIdx(pg) = {} /\ call.page < MaxPages)
             => /\ call'.state = "run"
                /\ call'.cat = call.cat /\ call'.page = call.page + 1]_vars

\* the first page held a post without timestamp in front of a fresh one: the
\* fresh one alone was collected and the second page is the next request
UntimedPostSkippedWitness ==
    /\ call.op = "Fetch"
    /\ call.state = "run"
    /\ call.at = <<1, 1>> /\ call.cat = 1 /\ call.page = 2
    /\ call.got = Page(FALSE, <<Post(2, NoTime, TRUE), Post(3, At(Now), TRUE)>>)
    /\ call.jobs = <<FetchedJob(Post(3, At(Now), TRUE))>>

\* What the statement gives for each interval string: the mode and, for the
\* fixed interval, the period.
ScheduleCases ==
    {
      \* a duration
      [value |-> <<"9", "0", "m">>,
       mode |-> "interval", period |-> 90 * Minute],
      \* a duration of two groups
      [value |-> <<"1", "h", "3", "0", "m">>,
       mode |-> "interval", period |-> 90 * Minute],
      \* a duration between blanks
      [value |-> <<" ", "3", "0", "m", " ">>,
       mode |-> "interval", period |-> 30 * Minute],
      [value |-> <<"5", "m", "s">>,
       mode |-> "interval", period |-> 5 * Millisecond],
      \* a signed duration
      [value |-> <<"+", "2", "s">>,
       mode |-> "interval", period |-> 2 * Second],
      \* durations that are not positive
      [value |-> <<"0", "s">>,
       mode |-> "interval", period |-> 2 * Hour],
      [value |-> <<"-", "5", "m">>,
       mode |-> "interval", period |-> 2 * Hour],
      [value |-> <<"0">>,
       mode |-> "interval", period |-> 2 * Hour],
      \* the empty and the blank string
      [value |-> <<>>,
       mode |-> "interval", period |-> 2 * Hour],
      [value |-> <<" ", " ">>,
       mode |-> "interval", period |-> 2 * Hour],
      \* a number without unit, a word
      [value |-> <<"5">>,
       mode |-> "interval", period |-> 2 * Hour],
      [value |-> <<"a", "b", "c">>,
       mode |-> "interval", period |-> 2 * Hour],
      \* five fields: values, steps, lists, wildcards
      [value |-> <<"0", " ", "*", "/", "2", " ", "*", " ", "*", " ", "*">>,
       mode |-> "cron", period |-> 0],
      [value |-> <<"*", "/", "1", "5", " ", "9", ",", "1", "8", " ", "1", " ", "1", ",", "6", " ", "0">>,
       mode |-> "cron", period |-> 0],
      [value |-> <<" ", "5", "9", " ", "2", "3", " ", "3", "1", " ", "1", "2", " ", "6", " ">>,
       mode |-> "cron", period |-> 0],
      \* a list with a blank item, which the parser passes over
      [value |-> <<"1", ",", ",", "2", " ", "*", " ", "*", " ", "*", " ", "*">>,
       mode |-> "cron", period |-> 0],
      \* four and six fields
      [value |-> <<"*", " ", "*", " ", "*", " ", "*">>,
       mode |-> "interval", period |-> 2 * Hour],
      [value |-> <<"*", " ", "*", " ", "*", " ", "*", " ", "*", " ", "*">>,
       mode |-> "interval", period |-> 2 * Hour],
      \* a value outside the range of its field
      [value |-> <<"6", "0", " ", "*", " ", "*", " ", "*", " ", "*">>,
       mode |-> "interval", period |-> 2 * Hour],
      [value |-> <<"0", " ", "2", "4", " ", "*", " ", "*", " ", "*">>,
       mode |-> "interval", period |-> 2 * Hour],
      [value |-> <<"0", " ", "0", " ", "0", " ", "*", " ", "*">>,
       mode |-> "interval", period |-> 2 * Hour],
      [value |-> <<"0", " ", "0", " ", "*", " ", "1", "3", " ", "*">>,
       mode |-> "interval", period |-> 2 * Hour],
      [value |-> <<"0", " ", "0", " ", "*", " ", "*", " ", "7">>,
       mode |-> "interval", period |-> 2 * Hour],
      \* malformed fields: a step of zero, a range, a word, a lone comma
      [value |-> <<"0", " ", "*", "/", "0", " ", "*", " ", "*", " ", "*">>,
       mode |-> "interval", period |-> 2 * Hour],
      [value |-> <<"1", "-", "5", " ", "*", " ", "*", " ", "*", " ", "*">>,
       mode |-> "interval", period |-> 2 * Hour],
      [value |-> <<"0", " ", "x", " ", "*", " ", "*", " ", "*">>,
       mode |-> "interval", period |-> 2 * Hour],
      [value |-> <<"0", " ", ",", " ", "*", " ", "*", " ", "*">>,
       mode |-> "interval", period |-> 2 * Hour] }

\* C30: the scheduler built from an interval string runs on the fixed
\* interval the string denotes when it is a positive duration, on the cron
\* schedule when it is a five-field cron expression, and on a fixed interval
\* of two hours for any other string; Start runs the one driver of that
\* mode: the ticker loop, with its ticker, or the cron loop.
ModeFromInterval ==
    /\ Built
       => \E c \in ScheduleCases :
            /\ c.value = call.value
            /\ mode = c.mode
            /\ c.mode = "interval" => call.interval = c.period /\ call.cron = <<>>
            /\ c.mode = "cron" => /\ Len(call.cron) = 1
                                  /\ call.cronSpec = TrimSpace(call.value)
    /\ pc[Driver] \in {"select", "drain"} => mode = "interval"
    /\ pc[Driver] \in {"next", "timer"} => mode = "cron"
    /\ tickCh # <<>> => mode = "interval"

\* the string "*/15 9,18 1 1,6 0" gave a cron schedule and the cron loop
\* waits on its timer
ModeFromIntervalWitness ==
    /\ Built
    /\ call.value = <<"*", "/", "1", "5", " ", "9", ",", "1", "8", " ", "1", " ", "1", ",", "6", " ", "0">>
    /\ call.cron = <<[minutes |-> {0, 15, 30, 45}, hours |-> {9, 18}, doms |-> {1},
                      months |-> {1, 6}, dows |-> {0}]>>
    /\ pc[Driver] = "timer"

\* a task of the group has just returned an error
TaskFailed == call.first = "nil" /\ call'.first # "nil"

\* the driver passes running.Swap(true) and starts a cycle
DriverStartsCycle == pc[Driver] = "runOnce" /\ pc'[Driver] = "fetch"

\* the error of either task cancels the shared context, and runServer asks
\* the server to shut down before it returns
ErrorCancelsShared ==
    [][/\ TaskFailed => startCtx' = "canceled"
       /\ call'.main = "shutdown" /\ call.main # "shutdown" => startCtx = "canceled"
       /\ call'.main = "returned" => call'.srv # "serving"]_vars

\* once the outer context is cancelled the driver starts no cycle
NoCycleAfterCancel ==
    [][call.outer = "canceled" => ~DriverStartsCycle]_vars

\* C27: the scheduling loop and the HTTP server run under one shared
\* cancellation signal: when either task ends with an error the other is
\* stopped, and when the outer context is cancelled the scheduler starts no
\* new cycle and the server is shut down within the bounded grace period.
SharedCancellation == ErrorCancelsShared /\ NoCycleAfterCancel

\* the search of next has ended for the instant call.after: with a fire time
\* within the 525600 minutes after the minute of call.after, or with none
\* when the schedule accepts none of them
SearchResult ==
    call.op = "next"
    => /\ call.i <= 525600
       /\ call.state = "found"
          => /\ Accepts(call.cron, call.at)
             /\ call.at > call.after
             /\ call.at <= call.after + 525600 * 60
       /\ call.state \in {"none", "failed"}
          => \A k \in 1..525600 : ~Accepts(call.cron, ((call.after \div 60) + k) * 60)

\* when next has found no time the driver does nothing but return the error
FailStops ==
    (call.op = "next" /\ call.state = "none")
    => /\ call'.state # "none"
       /\ pc'[Driver] = "stopped"
       /\ startRet' = "compute next cron time"
       /\ running' = running /\ ~running
       /\ rawJobs' = rawJobs /\ jobStore' = jobStore

\* C31: the cron search is bounded to one year: if none of the 525600 whole
\* minutes following the current minute satisfies all five fields, next
\* reports that no matching time was found and the cron driver makes Start
\* return an error without running any cycle; otherwise the search ends with
\* a fire time at most one year ahead.
SearchOneYear == []SearchResult /\ [][FailStops]_vars

\* Start has returned the error of a search that found nothing in a year
SearchOneYearWitness ==
    /\ call.op = "next"
    /\ call.state = "failed"
    /\ call.i = 525600
    /\ call.spec = <<"0", " ", "0", " ", "1", " ", "1", " ", "*">>
    /\ pc[Driver] = "stopped"
    /\ startRet = "compute next cron time"

\* the driver asks next for a fire time
CronAsks == call.op = "next" /\ call.state = "idle" /\ call'.state = "scan"

\* the driver arms its timer
CronArms == call.op = "next" /\ call.state = "found" /\ call'.state = "armed"

\* the whole minutes after the instant `from` and before the instant `to`
\* that the schedule accepts
MatchingBetween(c, from, to) ==
    { m \in ((from \div 60) + 1)..((to - 1) \div 60) : Accepts(c, m * 60) }

\* C34: in cron mode the next fire time is computed only after the previous
\* cycle has returned, from the then-current time: matching minutes that
\* pass while a cycle is executing are skipped rather than run late, no two
\* cycles are started by the driver for the same matching minute, and the
\* driver never starts a cycle before the computed fire instant.
FireAfterReturn ==
    [][/\ CronAsks => /\ ~InCycle(Driver) /\ ~running
                      /\ call'.after = call.now
       /\ CronArms => /\ call'.fire > call.after
                      /\ Accepts(call.cron, call'.fire)
                      /\ MatchingBetween(call.cron, call.after, call'.fire) = {}
                      /\ call.fire >= 0 => call'.fire > call.fire
       /\ DriverStartsCycle => call.fire >= 0 /\ call.now >= call.fire]_vars

\* the timer is armed for 01:20 after the cycle of 01:16 ran past 01:18
FireAfterReturnWitness ==
    /\ call.op = "next" /\ call.state = "armed"
    /\ call.last = Date2024(6, 10, 1, 16, 0)
    /\ call.after >= Date2024(6, 10, 1, 18, 0)
    /\ call.fire = Date2024(6, 10, 1, 20, 0)
    /\ pc[Driver] = "timer"
    /\ ret.by = Driver /\ ret.err = "nil"

\* C32: the scheduler follows the state machine Idle -> Running -> Idle:
\* every cycle that starts eventually ends (by success, by error, or by
\* expiry of its own timeout) and the scheduler is then Idle again; the
\* running flag is never left set while no cycle is executing.
IdleRunningIdle ==
    /\ [](running <=> InCycle(1))
    /\ InCycle(1) ~> (~InCycle(1) /\ ~running)

\* a cycle has ended with the error of a call after its crawl, and the
\* scheduler is Idle
IdleRunningIdleWitness ==
    /\ ~running
    /\ NoCycle
    /\ ret.by = 1
    /\ ret.err \notin {"nil", "none"}
    /\ ret.at # "fetch"

\* the raw job the cycle of process 1 is classifying or updating
RawAt == loc[1].pending[loc[1].idx]

\* C33: a raw job's status only ever moves from pending to processed or from
\* pending to rejected, and only through a status update issued by a cycle
\* after classifying it: once a raw job is processed or rejected, no later
\* cycle classifies it again or changes its status, and raw jobs are never
\* deleted.
StatusOnlyLeavesPending ==
    [][/\ Len(rawJobs') >= Len(rawJobs)
       /\ \A i \in 1..Len(rawJobs) :
            /\ rawJobs'[i].ext = rawJobs[i].ext
            /\ rawJobs'[i].status # rawJobs[i].status
               => /\ rawJobs[i].status = "pending"
                  /\ rawJobs'[i].status \in {"processed", "rejected"}
                  /\ pc[1] = "update" /\ RawAt = i
                  /\ loc[1].calls[Len(loc[1].calls)] = "Process"
       /\ \A i \in (Len(rawJobs) + 1)..Len(rawJobs') : rawJobs'[i].status = "pending"
       /\ pc[1] \in {"process", "update"} => rawJobs[RawAt].status = "pending"]_vars

\* a later cycle has crawled a post again whose raw job is processed or
\* rejected, and classifies another raw job
StatusOnlyLeavesPendingWitness ==
    /\ pc[1] = "process"
    /\ \E i \in 1..Len(rawJobs) :
         /\ rawJobs[i].status \in {"processed", "rejected"}
         /\ i < RawAt
         /\ \E k \in 1..Len(loc[1].jobs) : loc[1].jobs[k].ID = rawJobs[i].ext
    /\ \E i \in 1..Len(rawJobs) : rawJobs[i].status = "rejected"

\* C35: after any sequence of cycles, including cycles aborted by a
\* classification hard error, a status-update error, a final-upsert error
\* or a timeout, every raw job whose status is processed has a
\* corresponding final job (id equal to its external id, or the
\* source-plus-numeric-id fallback) stored in the final job store.
ProcessedHasFinalJob ==
    ~InCycle(1)
    => \A i \in 1..Len(rawJobs) :
         rawJobs[i].status = "processed"
         => JobID(rawJobs[i].ext, i) \in JobKeys(jobStore)

\* the ids of a sequence of jobs
IdsOf(jobs) == {jobs[k].ID : k \in 1..Len(jobs)}

\* C36: across all cycles each final job id is passed to the notifier in at
\* most one cycle: a job is notified only in the cycle whose upsert first
\* created it, and when Notify fails in that cycle the job is not passed to
\* the notifier again by any later cycle.
NotifiedOnce ==
    /\ [](call.again = {})
    /\ [][/\ JobKeys(jobStore) \subseteq JobKeys(jobStore')
          /\ pc[1] = "upsertJobs" /\ pc'[1] = "notify"
             => /\ IdsOf(loc'[1].res.NewJobs) = JobKeys(jobStore') \ JobKeys(jobStore)
                /\ IdsOf(loc'[1].res.NewJobs) \cap call.passed = {}
          /\ pc[1] = "notify" /\ pc'[1] = "notified"
             => /\ loc'[1].res = loc[1].res
                /\ call'.passed = call.passed \cup IdsOf(loc[1].res.NewJobs)
                /\ IdsOf(loc[1].res.NewJobs) \subseteq JobKeys(jobStore)]_vars

\* Notify failed for a job in an earlier cycle; a later cycle has crawled
\* the post again and has handed the notifier another job
NotifiedOnceWitness ==
    /\ pc[1] = "notified"
    /\ call.failed # {}
    /\ IdsOf(loc[1].res.NewJobs) \cap call.failed = {}
    /\ \E k \in 1..Len(loc[1].jobs) : loc[1].jobs[k].ID \in call.failed

\* no raw job created before row k is pending
OldestPending(store, k) == \A i \in 1..(k - 1) : store[i].status # "pending"

\* C37: a raw job whose classification fails with a hard error stays pending
\* and keeps its place in creation order: it is listed again in the next
\* cycle, and as long as its classification keeps failing every later cycle
\* aborts at it, so no raw job created after it is ever classified and no
\* later cycle reaches the final upsert.
HardErrorBlocks ==
    [][/\ (pc[1] = "process" /\ pc'[1] = "runOnce")
          => /\ ret' = [by |-> 1, at |-> "process", created |-> 0,
                        err |-> "process raw job"]
             /\ rawJobs' = rawJobs
             /\ rawJobs[RawAt].status = "pending"
             /\ OldestPending(rawJobs, RawAt)
       /\ (pc[1] = "list" /\ pc'[1] = "process")
          => /\ rawJobs[loc'[1].pending[1]].status = "pending"
             /\ OldestPending(rawJobs, loc'[1].pending[1])
       /\ pc[1] \in {"process", "update"} => OldestPending(rawJobs, RawAt)
       /\ pc[1] \in {"upsertJobs", "notify", "notified"}
          => OldestPending(rawJobs, loc[1].pending[Len(loc[1].pending)] + 1)]_vars

\* a cycle has aborted at the second raw job of its batch: the first has
\* left pending, the one that failed is the oldest pending raw job and a
\* raw job created after it waits behind it
HardErrorBlocksWitness ==
    /\ ~InCycle(1)
    /\ ret.err = "process raw job"
    /\ Len(rawJobs) = 3
    /\ rawJobs[1].status # "pending"
    /\ rawJobs[2].status = "pending"
    /\ rawJobs[3].status = "pending"

\* row k of the raw store is pending
PendingRow(k) == k <= Len(rawJobs) /\ rawJobs[k].status = "pending"

\* C38: if cycles keep being triggered and none of them fails, every raw job
\* that is pending is eventually classified and leaves the pending state
\* (becomes processed or rejected), even when the backlog exceeds the batch
\* size or each crawl adds new raw jobs, because pending jobs are taken
\* oldest-first.
BacklogDrains == \A k \in 1..NumIds : PendingRow(k) ~> ~PendingRow(k)

\* the backlog exceeds the batch: a cycle has classified its whole batch and
\* ended without an error, and a raw job is still pending
BacklogDrainsWitness ==
    /\ ~InCycle(1)
    /\ ret.err = "nil"
    /\ Len(rawJobs) > BatchSize
    /\ Cardinality({k \in 1..Len(rawJobs) : rawJobs[k].status # "pending"}) = BatchSize
    /\ PendingRow(Len(rawJobs))

\* the periodic loop ends in this step
DriverStops == pc[Driver] # "stopped" /\ pc'[Driver] = "stopped"

\* ... on the error a cycle of the driver returns
OwnCycleError ==
    /\ InCycle(Driver)
    /\ ret'.by = Driver
    /\ ret'.err # "nil"
    /\ startRet' = ret'.err

\* ... on the cancellation of its context, seen in the select
SeenCancelled ==
    /\ pc[Driver] \in {"select", "timer"}
    /\ startCtx = "canceled"
    /\ startRet' = "context canceled"

\* ... on a schedule for which next finds no fire time
NoFireTime ==
    /\ mode = "cron"
    /\ pc[Driver] = "next"
    /\ startRet' = "compute next cron time"

\* a manual caller's cycle returns an error: the driver stays where it is and
\* Start has returned nothing new
ManualErrorKeepsLoop ==
    \A p \in Manuals :
        (InCycle(p) /\ pc'[p] = "runOnce" /\ ret'.err # "nil")
            => /\ ret'.by = p
               /\ pc'[Driver] = pc[Driver]
               /\ startRet' = startRet

\* the driver's trigger finds the flag set: a manual cycle is executing, the
\* trigger returns (0, nil) without touching flag or stores, and the loop
\* goes on to wait for the next fire
DroppedFireIsNoOp ==
    (pc[Driver] = "runOnce" /\ running /\ pc'[Driver] # "runOnce")
        => /\ \E p \in Manuals : InCycle(p)
           /\ ret' = [by |-> Driver, at |-> "swap", created |-> 0, err |-> "nil"]
           /\ pc'[Driver] = LoopOn
           /\ LoopOn \in {"next", "drain"}
           /\ startRet' = startRet
           /\ UNCHANGED <<running, cycleCtx, loc, rawJobs, jobStore>>

\* C39 as stated: the periodic loop ends only on an error returned by a cycle
\* it started itself or on the cancellation of its context; an error
\* returned to a concurrent manual caller does not stop it, and a fire that
\* is dropped because a manual cycle is executing is a successful no-op
\* after which the loop waits for the next fire.
LoopEndsOnErrorOrCancel ==
    [][/\ DriverStops => (OwnCycleError \/ SeenCancelled)
       /\ ManualErrorKeepsLoop
       /\ DroppedFireIsNoOp]_vars

\* C39, amended: the periodic loop ends only on an error returned by a cycle
\* it started itself, on the cancellation of its context or, in cron mode,
\* when next finds no fire time; an error returned to a concurrent manual
\* caller does not stop it, and a fire that is dropped because a manual
\* cycle is executing is a successful no-op after which the loop waits for
\* the next fire.
LoopEndsOnErrorCancelOrNoFire ==
    [][/\ DriverStops => (OwnCycleError \/ SeenCancelled \/ NoFireTime)
       /\ ManualErrorKeepsLoop
       /\ DroppedFireIsNoOp]_vars

\* a manual caller has been returned an error and the loop, not cancelled,
\* waits for its next fire
LoopEndsOnErrorCancelOrNoFireWitness ==
    /\ ret.by \in Manuals
    /\ ret.err \notin {"nil", "none"}
    /\ pc[Driver] \in {"select", "timer"}
    /\ startCtx = "live"
    /\ startRet = "none"

\* the messages for the first n subscriptions, in stored order: one for
\* every subscription on a delivering channel that wants a job
MessagesFor(n) ==
    LET served == SelectSeq([k \in 1..n |-> k],
                            LAMBDA k : /\ Delivers(call.subs[k])
                                       /\ Wanted(call.subs[k], call.jobs) # <<>>)
    IN [m \in 1..Len(served) |->
          LET sub    == call.subs[served[m]]
              wanted == Wanted(sub, call.jobs)
          IN [To |-> <<sub.Email>>, Body |-> [k \in 1..Len(wanted) |-> wanted[k].Title]]]

\* what has been handed to the sender, at every point of a call that serves
\* subscriptions, and what the cycle returns after the call
ServedInOrder ==
    /\ (call.loaded /\ Len(call.subs) > 0)
       => /\ call.state = "loop" => call.err = "none" /\ call.sent = MessagesFor(call.i - 1)
          /\ call.err = "send"
             => /\ call.state \in {"done", "returned"}
                /\ call.i \in 1..Len(call.subs)
                /\ Delivers(call.subs[call.i])
                /\ Wanted(call.subs[call.i], call.jobs) # <<>>
                /\ call.sent = MessagesFor(call.i)
          /\ (call.state \in {"done", "returned"} /\ call.err = "nil")
             => call.sent = MessagesFor(Len(call.subs))
    /\ pc[1] = "notified" => (loc[1].notifErr <=> call.err # "nil")
    /\ ret.by = 1
       => /\ call.err = "nil" <=> (ret.err = "nil" /\ ret.at = "end")
          /\ call.err # "nil" <=> (ret.err = "notify" /\ ret.at = "notify")
          /\ ret.created = Len(call.jobs)

\* the failing send ends the call; nothing is handed to the sender afterwards
FailureAborts ==
    /\ (call.state = "loop" /\ call'.err = "send")
       => /\ call'.state = "done"
          /\ call'.i = call.i
          /\ Len(call'.sent) = Len(call.sent) + 1
    /\ call.err = "send" => call'.sent = call.sent /\ call'.err = "send"

\* C40: Notify serves the subscriptions one after the other in stored order
\* and the first delivery failure aborts it with that error: the
\* subscriptions before the failing one have been sent their message, those
\* after it get nothing in that call, and the cycle returns the error as its
\* notification error.
FirstFailureAborts == []ServedInOrder /\ [][FailureAborts]_vars

\* the send to the first subscription failed, the second subscription would
\* have been sent a message, and the cycle has returned the notification
\* error
FirstFailureAbortsWitness ==
    /\ call.op = "Notify" /\ call.err = "send"
    /\ call.i = 1 /\ Len(call.subs) = 2
    /\ Delivers(call.subs[2]) /\ Wanted(call.subs[2], call.jobs) # <<>>
    /\ Len(call.sent) = 1
    /\ ret.by = 1 /\ ret.err = "notify"

====
